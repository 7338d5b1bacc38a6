--------------------------- MODULE KVResponseProofs ---------------------------
(***************************************************************************)
(* The responses of the KV store, for any number of servers, clients and   *)
(* requests, whatever connections break: every request is in at most one   *)
(* place on its way to the log, it is answered at most once and with the   *)
(* result of its place in the log, and the store is an atomic one.         *)
(***************************************************************************)
EXTENDS KVClusterProofs

------------------------------------------------------------------------------
(* The parts of the inductive invariant, next to RegInv and ClusterInv.     *)

\* The command was sent by the client.
IsOf(cmd, c) == server_id[c] = cmd.coordinator_id /\ conn_id[c] = cmd.client_id

\* What the client recorded for a request id.
CommandOf(c, id) == IF request_data[c][id + 1].write THEN Put(id, id) ELSE Get(id)

\* Requests travel in the order of their ids: what is appended or decided is
\* older than what is still on the link.
OrderInv ==
    \A c \in Clients : \A i \in 1 .. Len(to_server[c]) :
        /\ to_server[c][i].cmd = CommandOf(c, to_server[c][i].id)
        /\ \A j \in 1 .. Len(to_server[c]) :
               i < j => to_server[c][i].id < to_server[c][j].id
        /\ \A cmd \in proposed : IsOf(cmd, c) => cmd.id < to_server[c][i].id
        /\ \A k \in 1 .. Len(log) : IsOf(log[k], c) => log[k].id < to_server[c][i].id

\* A request is appended once or decided once.
OnceInv ==
    /\ \A a, b \in proposed : IdOf(a) = IdOf(b) => a = b
    /\ \A a \in proposed : \A k \in 1 .. Len(log) : IdOf(a) # IdOf(log[k])
    /\ \A k, l \in 1 .. Len(log) : IdOf(log[k]) = IdOf(log[l]) => k = l

\* A command is what its client recorded.
MadeBy(cmd, c) == IsOf(cmd, c) /\ cmd.kv_cmd = CommandOf(c, cmd.id)

MadeInv ==
    /\ \A cmd \in proposed : \E c \in Clients : MadeBy(cmd, c)
    /\ \A k \in 1 .. Len(log) : \E c \in Clients : MadeBy(log[k], c)

\* The response is the result of the k-th entry, which the client sent.
Answers(response, c, k) ==
    /\ IsOf(log[k], c)
    /\ response = response_to(states[k], log[k].kv_cmd, log[k].id)

\* A response on the way is for an executed entry, and its request has no
\* response yet, nor another one on the way.
ResponseInv ==
    \A c \in Clients :
        /\ \A i \in 1 .. Len(to_client[c]) : to_client[c][i] # StartSignal =>
               /\ \E k \in 1 .. Applied(server_id[c]) : Answers(to_client[c][i], c, k)
               /\ ~request_data[c][to_client[c][i].id + 1].answered
               /\ \A j \in 1 .. Len(to_client[c]) :
                      /\ to_client[c][j] # StartSignal
                      /\ to_client[c][j].id = to_client[c][i].id
                      => j = i
        /\ \A i \in 1 .. Len(request_data[c]) : request_data[c][i].answered =>
               \E k \in 1 .. Applied(server_id[c]) :
                   IsOf(log[k], c) /\ log[k].id = i - 1

ResultInv ==
    \A r \in results : \E k \in 1 .. Len(log) : Answers(r.response, r.client, k)

AnswerInv ==
    /\ OrderInv
    /\ OnceInv
    /\ MadeInv
    /\ ResponseInv
    /\ ResultInv
    /\ ResponsesCountedOnce

LEMMA AnswerInit == Init => AnswerInv
  <1> SUFFICES ASSUME Init PROVE AnswerInv
    OBVIOUS
  <1> USE DEF Init, NetInit, ServerInit, ClientInit
  <1>1. OrderInv /\ OnceInv /\ MadeInv /\ ResponseInv /\ ResultInv
    BY DEF OrderInv, OnceInv, MadeInv, ResponseInv, ResultInv
  <1>2. ResponsesCountedOnce
    <2> SUFFICES ASSUME NEW c \in Clients
                 PROVE  response_count[c] =
                          Cardinality({i \in DOMAIN request_data[c] : request_data[c][i].answered})
      BY DEF ResponsesCountedOnce
    <2>1. {i \in DOMAIN request_data[c] : request_data[c][i].answered} = {}
      OBVIOUS
    <2> QED BY <2>1, FS_EmptySet
  <1> QED BY <1>1, <1>2 DEF AnswerInv

------------------------------------------------------------------------------
(* Queues that lose messages, in order.                                     *)

\* p is a stretch of q.
Stretch(p, q) ==
    \E d \in Nat : \A i \in 1 .. Len(p) : i + d \in 1 .. Len(q) /\ p[i] = q[i + d]

\* The responses in p are a stretch of q; start signals may have been added.
NoNewResponse(p, q) ==
    \E d \in Nat : \A i \in 1 .. Len(p) :
        p[i] # StartSignal => i + d \in 1 .. Len(q) /\ p[i] = q[i + d]

LEMMA StretchOfQueue ==
    ASSUME NEW S, NEW q \in Seq(S)
    PROVE  /\ Stretch(q, q)
           /\ Stretch(<<>>, q)
           /\ q # <<>> => Stretch(Tail(q), q)
           /\ \A p \in Prefixes(q) : Stretch(p, q)
  <1>0. 0 \in Nat /\ 1 \in Nat /\ Len(q) \in Nat
    OBVIOUS
  <1>1. Stretch(q, q) /\ Stretch(<<>>, q)
    <2>1. \A i \in 1 .. Len(q) : i + 0 \in 1 .. Len(q) /\ q[i] = q[i + 0]
      BY <1>0
    <2> QED BY <1>0, <2>1 DEF Stretch
  <1>2. ASSUME q # <<>> PROVE Stretch(Tail(q), q)
    <2>1. Len(Tail(q)) = Len(q) - 1
      BY <1>2
    <2>2. \A i \in 1 .. Len(Tail(q)) : i + 1 \in 1 .. Len(q) /\ Tail(q)[i] = q[i + 1]
      BY <1>2, <2>1
    <2> QED BY <1>0, <2>2 DEF Stretch
  <1>3. ASSUME NEW p \in Prefixes(q) PROVE Stretch(p, q)
    <2>1. PICK n \in 0 .. Len(q) : p = SubSeq(q, 1, n)
      BY DEF Prefixes
    <2>2. Len(p) = n /\ \A i \in 1 .. n : p[i] = q[i]
      BY <2>1
    <2>3. \A i \in 1 .. Len(p) : i + 0 \in 1 .. Len(q) /\ p[i] = q[i + 0]
      BY <2>2, <1>0
    <2> QED BY <1>0, <2>3 DEF Stretch
  <1> QED BY <1>1, <1>2, <1>3

LEMMA StretchHasNoNewResponse ==
    ASSUME NEW p, NEW q, Stretch(p, q)
    PROVE  NoNewResponse(p, q)
  BY DEF Stretch, NoNewResponse

------------------------------------------------------------------------------
(* Steps that make no request, command or response.                         *)

\* A command keeps its client: ids that were given out stay.
LEMMA ClientStays ==
    ASSUME NEW cmd \in Commands, NEW c \in Clients, IsOf(cmd, c),
           conn_id[c] # 0 => conn_id'[c] = conn_id[c]
    PROVE  IsOf(cmd, c)'
  <1>1. cmd.client_id # 0
    BY ClientIdsType DEF Commands
  <1> QED BY <1>1 DEF IsOf

\* What such a step leaves alone.
QuietFrame ==
    /\ UNCHANGED <<proposed, log, states, request_data, response_count, results>>
    /\ \A s \in Servers : Applied(s)' = Applied(s)
    /\ \A c \in Clients :
           /\ Stretch(to_server'[c], to_server[c])
           /\ NoNewResponse(to_client'[c], to_client[c])
           /\ conn_id[c] # 0 => conn_id'[c] = conn_id[c]

LEMMA QuietAnswers ==
    ASSUME ClusterInv, AnswerInv, QuietFrame
    PROVE  AnswerInv'
  <1> USE DEF AnswerInv
  <1>1. /\ UNCHANGED <<proposed, log, states, request_data, response_count, results>>
        /\ \A c \in Clients : server_id[c] \in Servers
    BY NetworkAssumption DEF NetworkAssumption, QuietFrame
  <1>2. /\ \A cmd \in proposed : cmd \in Commands
        /\ \A k \in 1 .. Len(log) : log[k] \in Commands
    BY DEF ClusterInv, ServerTypeOK
  <1>3. \A cmd \in Commands : \A c \in Clients : IsOf(cmd, c) => IsOf(cmd, c)'
    BY ClientStays DEF QuietFrame
  <1>4. \A c \in Clients : \A id : CommandOf(c, id)' = CommandOf(c, id)
    BY <1>1 DEF CommandOf
  <1>5. OrderInv'
    <2> SUFFICES ASSUME NEW c \in Clients, NEW i \in 1 .. Len(to_server'[c])
                 PROVE  /\ to_server'[c][i].cmd = CommandOf(c, to_server[c][i].id)'
                        /\ \A j \in 1 .. Len(to_server'[c]) :
                               i < j => to_server'[c][i].id < to_server'[c][j].id
                        /\ \A cmd \in proposed : IsOf(cmd, c)' => cmd.id < to_server'[c][i].id
                        /\ \A k \in 1 .. Len(log) :
                               IsOf(log[k], c)' => log[k].id < to_server'[c][i].id
      BY <1>1 DEF OrderInv
    <2>1. PICK d \in Nat : \A j \in 1 .. Len(to_server'[c]) :
              j + d \in 1 .. Len(to_server[c]) /\ to_server'[c][j] = to_server[c][j + d]
      BY DEF QuietFrame, Stretch
    <2>2. to_server[c] \in Seq(ClientMessages)
      BY DEF ClusterInv, LinkTypeOK
    <2>3. to_server[c] # <<>>
      BY <2>1, <2>2
    <2>4. conn_id[c] # 0
      BY <2>3 DEF ClusterInv, StartInv
    <2>5. conn_id'[c] = conn_id[c]
      BY <2>4 DEF QuietFrame
    <2>6. i + d \in 1 .. Len(to_server[c]) /\ to_server'[c][i] = to_server[c][i + d]
      BY <2>1
    <2>7. to_server'[c][i].cmd = CommandOf(c, to_server[c][i].id)'
      BY <2>6, <1>4, <1>1 DEF OrderInv, CommandOf
    <2>8. ASSUME NEW j \in 1 .. Len(to_server'[c]), i < j
          PROVE  to_server'[c][i].id < to_server'[c][j].id
      <3>1. j + d \in 1 .. Len(to_server[c]) /\ to_server'[c][j] = to_server[c][j + d]
        BY <2>1
      <3>2. i + d < j + d
        BY <2>8
      <3> QED BY <2>6, <3>1, <3>2 DEF OrderInv
    <2>9. \A cmd : IsOf(cmd, c)' => IsOf(cmd, c)
      BY <2>5 DEF IsOf
    <2>10. \A k \in 1 .. Len(log) : IsOf(log[k], c)' => IsOf(log[k], c)
      BY <2>5, <1>1 DEF IsOf
    <2> QED BY <2>6, <2>7, <2>8, <2>9, <2>10 DEF OrderInv
  <1>6. OnceInv'
    BY <1>1 DEF OnceInv, IdOf
  <1>7. MadeInv'
    <2>1. ASSUME NEW cmd \in proposed PROVE \E c \in Clients : MadeBy(cmd, c)'
      <3>1. PICK c \in Clients : MadeBy(cmd, c)
        BY DEF MadeInv
      <3> QED BY <3>1, <1>1, <1>2, <1>3, <1>4 DEF MadeBy, CommandOf
    <2>2. ASSUME NEW k \in 1 .. Len(log) PROVE \E c \in Clients : MadeBy(log[k], c)'
      <3>1. PICK c \in Clients : MadeBy(log[k], c)
        BY DEF MadeInv
      <3> QED BY <3>1, <1>1, <1>2, <1>3 DEF MadeBy, CommandOf, IsOf
    <2> QED BY <1>1, <2>1, <2>2 DEF MadeInv
  <1>8. \A c \in Clients : \A k \in 1 .. Len(log) :
            /\ IsOf(log[k], c) => IsOf(log[k], c)'
            /\ \A response : Answers(response, c, k) => Answers(response, c, k)'
    BY <1>1, <1>2, <1>3 DEF Answers, IsOf
  <1>9. ResponseInv'
    <2> SUFFICES ASSUME NEW c \in Clients
                 PROVE
          /\ \A i \in 1 .. Len(to_client'[c]) : to_client'[c][i] # StartSignal =>
               /\ \E k \in 1 .. Applied(server_id[c]) : Answers(to_client[c][i], c, k)'
               /\ ~request_data[c][to_client'[c][i].id + 1].answered
               /\ \A j \in 1 .. Len(to_client'[c]) :
                      /\ to_client'[c][j] # StartSignal
                      /\ to_client'[c][j].id = to_client'[c][i].id
                      => j = i
          /\ \A i \in 1 .. Len(request_data[c]) : request_data[c][i].answered =>
               \E k \in 1 .. Applied(server_id[c]) :
                   IsOf(log[k], c)' /\ log[k].id = i - 1
      BY <1>1 DEF ResponseInv, QuietFrame
    <2>0. Applied(server_id[c]) \in 0 .. Len(log)
      <3>1. /\ current_decided_idx[server_id[c]] \in Nat
            /\ Len(decided_commands[server_id[c]]) \in Nat
            /\ Len(log) \in Nat
        BY <1>1 DEF ClusterInv, ServerTypeOK
      <3> QED BY <1>1, <3>1 DEF ClusterInv, ReplicaInv, Applied
    <2>1. PICK d \in Nat : \A i \in 1 .. Len(to_client'[c]) :
              to_client'[c][i] # StartSignal =>
                  i + d \in 1 .. Len(to_client[c]) /\ to_client'[c][i] = to_client[c][i + d]
      BY DEF QuietFrame, NoNewResponse
    <2>2. ASSUME NEW i \in 1 .. Len(to_client'[c]), to_client'[c][i] # StartSignal
          PROVE
               /\ \E k \in 1 .. Applied(server_id[c]) : Answers(to_client[c][i], c, k)'
               /\ ~request_data[c][to_client'[c][i].id + 1].answered
               /\ \A j \in 1 .. Len(to_client'[c]) :
                      /\ to_client'[c][j] # StartSignal
                      /\ to_client'[c][j].id = to_client'[c][i].id
                      => j = i
      <3>1. i + d \in 1 .. Len(to_client[c]) /\ to_client'[c][i] = to_client[c][i + d]
        BY <2>1, <2>2
      <3>2. PICK k \in 1 .. Applied(server_id[c]) : Answers(to_client[c][i + d], c, k)
        BY <2>2, <3>1 DEF ResponseInv
      <3>3. k \in 1 .. Len(log)
        BY <2>0, <3>2
      <3>4. ASSUME NEW x, x = to_client[c][i + d] PROVE Answers(x, c, k)'
        BY <1>8, <3>2, <3>3, <3>4
      <3>5. Answers(to_client[c][i], c, k)'
        BY <3>1, <3>4
      <3>6. ASSUME NEW j \in 1 .. Len(to_client'[c]), to_client'[c][j] # StartSignal,
                   to_client'[c][j].id = to_client'[c][i].id
            PROVE  j = i
        <4>1. j + d \in 1 .. Len(to_client[c]) /\ to_client'[c][j] = to_client[c][j + d]
          BY <2>1, <3>6
        <4>2. j + d = i + d
          BY <2>2, <3>1, <3>6, <4>1 DEF ResponseInv
        <4> QED BY <4>2
      <3>7. ~request_data[c][to_client'[c][i].id + 1].answered
        BY <2>2, <3>1 DEF ResponseInv
      <3> QED BY <3>5, <3>6, <3>7
    <2>3. ASSUME NEW i \in 1 .. Len(request_data[c]), request_data[c][i].answered
          PROVE  \E k \in 1 .. Applied(server_id[c]) :
                     IsOf(log[k], c)' /\ log[k].id = i - 1
      <3>1. PICK k \in 1 .. Applied(server_id[c]) : IsOf(log[k], c) /\ log[k].id = i - 1
        BY <2>3 DEF ResponseInv
      <3>2. k \in 1 .. Len(log)
        BY <2>0, <3>1
      <3> QED BY <1>8, <3>1, <3>2
    <2> QED BY <2>2, <2>3
  <1>10. ResultInv'
    <2> SUFFICES ASSUME NEW r \in results
                 PROVE  \E k \in 1 .. Len(log) : Answers(r.response, r.client, k)'
      BY <1>1 DEF ResultInv
    <2>1. r.client \in Clients
      BY DEF ClusterInv, ClientTypeOK
    <2> QED BY <1>8, <2>1 DEF ResultInv
  <1>11. ResponsesCountedOnce'
    BY <1>1 DEF ResponsesCountedOnce
  <1> QED BY <1>5, <1>6, <1>7, <1>9, <1>10, <1>11

\* Steps that leave commands, responses and requests alone but for the links.
LEMMA QuietWhenLinksShrink ==
    ASSUME UNCHANGED <<proposed, log, states, current_decided_idx, decided_commands,
                       request_data, response_count, results>>,
           \A c \in Clients :
               /\ Stretch(to_server'[c], to_server[c])
               /\ Stretch(to_client'[c], to_client[c])
               /\ conn_id[c] # 0 => conn_id'[c] = conn_id[c]
    PROVE  QuietFrame
  <1>1. \A c \in Clients : NoNewResponse(to_client'[c], to_client[c])
    BY StretchHasNoNewResponse
  <1>2. \A s \in Servers : Applied(s)' = Applied(s)
    BY DEF Applied
  <1> QED BY <1>1, <1>2 DEF QuietFrame

LEMMA LinksStay ==
    ASSUME LinkTypeOK, UNCHANGED <<to_server, to_client>>
    PROVE  \A c \in Clients : /\ Stretch(to_server'[c], to_server[c])
                              /\ Stretch(to_client'[c], to_client[c])
  <1> SUFFICES ASSUME NEW c \in Clients
               PROVE  /\ Stretch(to_server[c], to_server[c])
                      /\ Stretch(to_client[c], to_client[c])
    OBVIOUS
  <1>1. to_server[c] \in Seq(ClientMessages) /\ to_client[c] \in Seq(ServerMessages)
    BY DEF LinkTypeOK
  <1> QED BY <1>1, StretchOfQueue

\* One client's link loses messages, the others stay.
LEMMA OneLinkLoses ==
    ASSUME LinkTypeOK, NEW c \in Clients,
           \/ to_server' = to_server
           \/ \E p \in Prefixes(to_server[c]) : to_server' = [to_server EXCEPT ![c] = p],
           \/ to_client' = to_client
           \/ \E q \in Prefixes(to_client[c]) : to_client' = [to_client EXCEPT ![c] = q]
           \/ to_client' = [to_client EXCEPT ![c] = <<>>]
           \/ /\ to_client[c] # <<>>
              /\ to_client' = [to_client EXCEPT ![c] = Tail(@)]
    PROVE  \A d \in Clients : /\ Stretch(to_server'[d], to_server[d])
                              /\ Stretch(to_client'[d], to_client[d])
  <1> SUFFICES ASSUME NEW d \in Clients
               PROVE  /\ Stretch(to_server'[d], to_server[d])
                      /\ Stretch(to_client'[d], to_client[d])
    OBVIOUS
  <1>1. /\ to_server \in [Clients -> Seq(ClientMessages)]
        /\ to_client \in [Clients -> Seq(ServerMessages)]
        /\ to_server[d] \in Seq(ClientMessages) /\ to_client[d] \in Seq(ServerMessages)
    BY DEF LinkTypeOK
  <1>2. /\ Stretch(to_server[d], to_server[d]) /\ Stretch(to_client[d], to_client[d])
        /\ \A p \in Prefixes(to_server[d]) : Stretch(p, to_server[d])
        /\ \A q \in Prefixes(to_client[d]) : Stretch(q, to_client[d])
        /\ Stretch(<<>>, to_client[d])
        /\ to_client[d] # <<>> => Stretch(Tail(to_client[d]), to_client[d])
    BY <1>1, StretchOfQueue
  <1>3. CASE d = c
    <2>1. Stretch(to_server'[d], to_server[d])
      BY <1>1, <1>2, <1>3
    <2>2. Stretch(to_client'[d], to_client[d])
      BY <1>1, <1>2, <1>3
    <2> QED BY <2>1, <2>2
  <1>4. CASE d # c
    <2>1. to_server'[d] = to_server[d] /\ to_client'[d] = to_client[d]
      BY <1>1, <1>4
    <2> QED BY <2>1, <1>2
  <1> QED BY <1>3, <1>4

LEMMA QuietRegistration ==
    ASSUME ClusterInv, RegFrame
    PROVE  QuietFrame
  <1>1. UNCHANGED <<proposed, log, states, current_decided_idx, decided_commands,
                    request_data, response_count, results, to_server, to_client>>
    BY DEF RegFrame, serverVars, localVars, libVars, clientVars
  <1>2. \A c \in Clients : conn_id[c] # 0 => conn_id'[c] = conn_id[c]
    BY DEF RegFrame
  <1>3. \A c \in Clients : /\ Stretch(to_server'[c], to_server[c])
                           /\ Stretch(to_client'[c], to_client[c])
    BY <1>1, LinksStay DEF ClusterInv
  <1> QED BY <1>1, <1>2, <1>3, QuietWhenLinksShrink

LEMMA QuietBreak ==
    ASSUME ClusterInv, Break, UNCHANGED <<serverVars, clientVars>>
    PROVE  QuietFrame
  <1>1. UNCHANGED <<proposed, log, states, current_decided_idx, decided_commands,
                    request_data, response_count, results>>
    BY DEF serverVars, localVars, libVars, clientVars
  <1>2. ASSUME NEW s \in Servers, NEW t \in Servers, BreakPeer(s, t)
        PROVE  QuietFrame
    <2>1. UNCHANGED <<to_server, to_client, conn_id>>
      BY <1>2 DEF BreakPeer, registrationVars
    <2>2. \A c \in Clients : /\ Stretch(to_server'[c], to_server[c])
                             /\ Stretch(to_client'[c], to_client[c])
      BY <2>1, LinksStay DEF ClusterInv
    <2> QED BY <1>1, <2>1, <2>2, QuietWhenLinksShrink
  <1>3. ASSUME NEW c \in Clients, BreakClient(c)
        PROVE  QuietFrame
    <2>1. /\ UNCHANGED conn_id
          /\ \E p \in Prefixes(to_server[c]) : to_server' = [to_server EXCEPT ![c] = p]
          /\ \E q \in Prefixes(to_client[c]) : to_client' = [to_client EXCEPT ![c] = q]
      BY <1>3 DEF BreakClient, registrationVars
    <2>2. \A d \in Clients : /\ Stretch(to_server'[d], to_server[d])
                             /\ Stretch(to_client'[d], to_client[d])
      BY <2>1, OneLinkLoses DEF ClusterInv
    <2> QED BY <1>1, <2>1, <2>2, QuietWhenLinksShrink
  <1> QED BY <1>2, <1>3 DEF Break

\* The client's steps but for sending a request and recording a response.
LEMMA QuietClient ==
    ASSUME ClusterInv, NEW c \in Clients, UNCHANGED serverVars,
           \/ wait_for_start_signal(c)
           \/ \E is_write \in BOOLEAN : request_tick(c, is_write)
           \/ next_interval_ends(c)
           \/ handle_server_message(c) /\ Head(to_client[c]) = StartSignal
    PROVE  QuietFrame
  <1>1. UNCHANGED <<proposed, log, states, current_decided_idx, decided_commands>>
    BY DEF serverVars, localVars, libVars
  <1>2. CASE wait_for_start_signal(c)
    <2>1. /\ UNCHANGED <<conn_id, request_data, response_count, results, to_server>>
          /\ to_client[c] # <<>>
          /\ to_client' = [to_client EXCEPT ![c] = Tail(@)]
      BY <1>2 DEF wait_for_start_signal, registrationVars
    <2>2. \A d \in Clients : /\ Stretch(to_server'[d], to_server[d])
                             /\ Stretch(to_client'[d], to_client[d])
      BY <2>1, OneLinkLoses DEF ClusterInv
    <2> QED BY <1>1, <2>1, <2>2, QuietWhenLinksShrink
  <1>3. CASE \E is_write \in BOOLEAN : request_tick(c, is_write)
    <2>1. UNCHANGED <<conn_id, request_data, response_count, results, to_server, to_client>>
      BY <1>3 DEF request_tick, netVars, registrationVars
    <2>2. \A d \in Clients : /\ Stretch(to_server'[d], to_server[d])
                             /\ Stretch(to_client'[d], to_client[d])
      BY <2>1, LinksStay DEF ClusterInv
    <2> QED BY <1>1, <2>1, <2>2, QuietWhenLinksShrink
  <1>4. CASE next_interval_ends(c)
    <2>1. /\ UNCHANGED <<conn_id, request_data, response_count, results>>
          /\ \/ /\ to_client' = [to_client EXCEPT ![c] = <<>>]
                /\ \E p \in Prefixes(to_server[c]) : to_server' = [to_server EXCEPT ![c] = p]
             \/ UNCHANGED <<to_server, to_client>>
      BY <1>4 DEF next_interval_ends, registrationVars, shutdown
    <2>2. \A d \in Clients : /\ Stretch(to_server'[d], to_server[d])
                             /\ Stretch(to_client'[d], to_client[d])
      BY <2>1, OneLinkLoses DEF ClusterInv
    <2> QED BY <1>1, <2>1, <2>2, QuietWhenLinksShrink
  <1>5. CASE handle_server_message(c) /\ Head(to_client[c]) = StartSignal
    <2>1. /\ UNCHANGED <<conn_id, request_data, response_count, results>>
          /\ to_client[c] # <<>>
          /\ \/ /\ to_client' = [to_client EXCEPT ![c] = <<>>]
                /\ \E p \in Prefixes(to_server[c]) : to_server' = [to_server EXCEPT ![c] = p]
             \/ /\ to_client' = [to_client EXCEPT ![c] = Tail(@)]
                /\ UNCHANGED to_server
      BY <1>5 DEF handle_server_message, registrationVars, shutdown
    <2>2. \A d \in Clients : /\ Stretch(to_server'[d], to_server[d])
                             /\ Stretch(to_client'[d], to_client[d])
      BY <2>1, OneLinkLoses DEF ClusterInv
    <2> QED BY <1>1, <2>1, <2>2, QuietWhenLinksShrink
  <1> QED BY <1>2, <1>3, <1>4, <1>5

\* Start signals are added at the end of a client's queue.
LEMMA QuietSignals ==
    ASSUME RegInv, ClusterInv, UNCHANGED clientVars, NEW s \in Servers,
           send_client_start_signals(s),
           UNCHANGED <<registrationVars, to_server, localVars, libVars>>
    PROVE  QuietFrame
  <1>1. UNCHANGED <<proposed, log, states, current_decided_idx, decided_commands,
                    conn_id, request_data, response_count, results, to_server>>
    BY DEF localVars, libVars, clientVars, registrationVars
  <1>2. ASSUME NEW c \in Clients
        PROVE  \/ to_client'[c] = to_client[c]
               \/ to_client'[c] = Append(to_client[c], StartSignal)
    <2> DEFINE messages == [id \in 1 .. num_clients(s) |-> StartSignal]
    <2>1. send_to_clients(s, messages)
      BY DEF send_client_start_signals
    <2>2. /\ DOMAIN messages \subseteq ClientIds
          /\ \A id \in DOMAIN messages :
                 messages[id] = StartSignal /\ messages[id] \in ServerMessages
      BY StartIds DEF ServerMessages
    <2> HIDE DEF messages
    <2>3. \/ to_client'[c] = to_client[c]
          \/ \E id \in DOMAIN messages : to_client'[c] = Append(to_client[c], messages[id])
      BY <2>1, <2>2, Sending DEF ClusterInv
    <2> QED BY <2>2, <2>3
  <1>3. ASSUME NEW c \in Clients
        PROVE  NoNewResponse(to_client'[c], to_client[c])
    <2>1. to_client[c] \in Seq(ServerMessages) /\ Len(to_client[c]) \in Nat
      BY DEF ClusterInv, LinkTypeOK
    <2>2. ASSUME NEW i \in 1 .. Len(to_client'[c]), to_client'[c][i] # StartSignal
          PROVE  i + 0 \in 1 .. Len(to_client[c]) /\ to_client'[c][i] = to_client[c][i + 0]
      <3>1. CASE to_client'[c] = to_client[c]
        BY <2>1, <2>2, <3>1
      <3>2. CASE to_client'[c] = Append(to_client[c], StartSignal)
        <4>1. /\ Len(to_client'[c]) = Len(to_client[c]) + 1
              /\ to_client'[c][Len(to_client[c]) + 1] = StartSignal
              /\ \A j \in 1 .. Len(to_client[c]) : to_client'[c][j] = to_client[c][j]
          BY <2>1, <3>2
        <4>2. i # Len(to_client[c]) + 1
          BY <2>2, <4>1
        <4> QED BY <2>1, <2>2, <4>1, <4>2
      <3> QED BY <1>2, <3>1, <3>2
    <2>3. 0 \in Nat
      OBVIOUS
    <2> QED BY <2>2, <2>3 DEF NoNewResponse
  <1>4. \A c \in Clients : Stretch(to_server'[c], to_server[c])
    <2>1. \A c \in Clients : to_server[c] \in Seq(ClientMessages)
      BY DEF ClusterInv, LinkTypeOK
    <2> QED BY <1>1, <2>1, StretchOfQueue
  <1>5. \A u \in Servers : Applied(u)' = Applied(u)
    BY <1>1 DEF Applied
  <1> QED BY <1>1, <1>3, <1>4, <1>5 DEF QuietFrame

\* Reading the log moves current_decided_idx and decided_commands together.
LEMMA QuietRead ==
    ASSUME ClusterInv, UNCHANGED clientVars, NEW s \in Servers,
           handle_omnipaxos_message(s)
    PROVE  QuietFrame
  <1>1. /\ decided_commands[s] = <<>>
        /\ UNCHANGED <<proposed, log, states, conn_id, to_server, to_client>>
        /\ UNCHANGED <<request_data, response_count, results>>
    BY DEF handle_omnipaxos_message, Ready, netVars, registrationVars, libVars, clientVars
  <1>2. PICK new \in current_decided_idx[s] + 1 .. Len(log) :
            /\ current_decided_idx' = [current_decided_idx EXCEPT ![s] = new]
            /\ decided_commands' = [decided_commands EXCEPT ![s] =
                   SubSeq(log, current_decided_idx[s] + 1, new)]
    BY DEF handle_omnipaxos_message, handle_decided_entries
  <1>3. /\ log \in Seq(Commands) /\ Len(log) \in Nat
        /\ current_decided_idx \in [Servers -> Nat]
        /\ decided_commands \in [Servers -> Seq(Commands)]
        /\ current_decided_idx[s] \in Nat /\ new \in Nat
    BY <1>2 DEF ClusterInv, ServerTypeOK
  <1>4. Len(SubSeq(log, current_decided_idx[s] + 1, new)) = new - current_decided_idx[s]
    BY <1>2, <1>3
  <1>5. ASSUME NEW u \in Servers PROVE Applied(u)' = Applied(u)
    <2>1. CASE u = s
      <3>1. /\ current_decided_idx'[s] = new
            /\ Len(decided_commands'[s]) = new - current_decided_idx[s]
        BY <1>2, <1>3, <1>4
      <3>2. Len(decided_commands[s]) = 0
        BY <1>1
      <3> QED BY <2>1, <3>1, <3>2, <1>3 DEF Applied
    <2>2. CASE u # s
      BY <2>2, <1>2, <1>3 DEF Applied
    <2> QED BY <2>1, <2>2
  <1>6. \A c \in Clients : /\ Stretch(to_server'[c], to_server[c])
                           /\ NoNewResponse(to_client'[c], to_client[c])
    BY <1>1, LinksStay, StretchHasNoNewResponse DEF ClusterInv
  <1> QED BY <1>1, <1>5, <1>6 DEF QuietFrame

LEMMA QuietElsewhere ==
    ASSUME ClusterInv,
           UNCHANGED <<registrationVars, to_server, to_client, localVars,
                       proposed, log, states, clientVars>>
    PROVE  QuietFrame
  <1>1. UNCHANGED <<proposed, log, states, current_decided_idx, decided_commands,
                    conn_id, request_data, response_count, results>>
    BY DEF registrationVars, localVars, clientVars
  <1>2. \A c \in Clients : /\ Stretch(to_server'[c], to_server[c])
                           /\ Stretch(to_client'[c], to_client[c])
    BY LinksStay DEF ClusterInv
  <1> QED BY <1>1, <1>2, QuietWhenLinksShrink

------------------------------------------------------------------------------
(* A command is decided.                                                    *)

LEMMA AppliedRange ==
    ASSUME ClusterInv, NEW s \in Servers
    PROVE  Applied(s) \in Nat /\ Applied(s) <= Len(log) /\ Len(log) \in Nat
  <1>1. /\ current_decided_idx[s] \in Nat /\ Len(decided_commands[s]) \in Nat
        /\ Len(log) \in Nat
    BY DEF ClusterInv, ServerTypeOK
  <1>2. /\ current_decided_idx[s] <= Len(log)
        /\ Len(decided_commands[s]) <= current_decided_idx[s]
    BY DEF ClusterInv, ReplicaInv
  <1> QED BY <1>1, <1>2 DEF Applied

LEMMA DecideAnswers ==
    ASSUME ClusterInv, AnswerInv, NEW cmd \in proposed, Decide(cmd),
           UNCHANGED clientVars
    PROVE  AnswerInv'
  <1> USE DEF AnswerInv
  <1> DEFINE len == Len(log)
  <1>1. /\ log' = Append(log, cmd)
        /\ states' = Append(states, handle_command(states[Len(states)], cmd.kv_cmd))
        /\ proposed' = proposed \ {cmd}
        /\ UNCHANGED <<conn_id, to_server, to_client>>
        /\ UNCHANGED <<current_decided_idx, decided_commands>>
        /\ UNCHANGED <<request_data, response_count, results>>
    BY DEF Decide, netVars, registrationVars, localVars, clientVars
  <1>2. /\ log \in Seq(Commands) /\ states \in Seq(Databases) /\ len \in Nat
        /\ Len(states) = len + 1
    BY DEF ClusterInv, ServerTypeOK, ReplicaInv
  <1>3. /\ Len(log') = len + 1 /\ log'[len + 1] = cmd
        /\ \A k \in 1 .. len : log'[k] = log[k] /\ states'[k] = states[k]
    BY <1>1, <1>2
  <1> HIDE DEF len
  <1>4. /\ \A k \in 1 .. Len(log') : k \in 1 .. len \/ k = len + 1
        /\ \A k \in 1 .. len : k \in 1 .. Len(log')
        /\ len + 1 \notin 1 .. len
    BY <1>2, <1>3
  <1>5. /\ \A x : \A c : IsOf(x, c)' = IsOf(x, c) /\ MadeBy(x, c)' = MadeBy(x, c)
        /\ \A c, id : CommandOf(c, id)' = CommandOf(c, id)
    BY <1>1 DEF IsOf, MadeBy, CommandOf
  <1>6. ASSUME NEW k \in 1 .. len, NEW c
        PROVE  /\ IsOf(log[k], c) => IsOf(log[k], c)'
               /\ \A x : Answers(x, c, k) => Answers(x, c, k)'
    BY <1>1, <1>3 DEF Answers, IsOf
  <1>7. \A c \in Clients : server_id[c] \in Servers
    BY NetworkAssumption DEF NetworkAssumption
  <1>8. \A c \in Clients : Applied(server_id[c])' = Applied(server_id[c])
    BY <1>1 DEF Applied
  <1>9. \A c \in Clients : \A k \in 1 .. Applied(server_id[c]) : k \in 1 .. len
    BY <1>7, AppliedRange DEF len
  <1>10. OrderInv'
    <2> SUFFICES ASSUME NEW c \in Clients, NEW i \in 1 .. Len(to_server[c])
                 PROVE  /\ to_server[c][i].cmd = CommandOf(c, to_server[c][i].id)'
                        /\ \A j \in 1 .. Len(to_server[c]) :
                               i < j => to_server[c][i].id < to_server[c][j].id
                        /\ \A x \in proposed' : IsOf(x, c)' => x.id < to_server[c][i].id
                        /\ \A k \in 1 .. Len(log') :
                               IsOf(log[k], c)' => log'[k].id < to_server[c][i].id
      BY SMTT(30), <1>1 DEF OrderInv
    <2>1. to_server[c][i].cmd = CommandOf(c, to_server[c][i].id)'
      BY <1>1 DEF OrderInv, CommandOf
    <2>2. \A x \in proposed : IsOf(x, c) => x.id < to_server[c][i].id
      BY DEF OrderInv
    <2>3. ASSUME NEW k \in 1 .. Len(log'), IsOf(log[k], c)'
          PROVE  log'[k].id < to_server[c][i].id
      <3>1. IsOf(log'[k], c)
        BY <2>3, <1>1 DEF IsOf
      <3>2. CASE k = len + 1
        BY <3>1, <3>2, <2>2, <1>3
      <3>3. CASE k \in 1 .. len
        BY <3>1, <3>3, <1>3 DEF OrderInv, len
      <3> QED BY <3>2, <3>3, <1>4
    <2> QED BY <2>1, <2>2, <2>3, <1>1, <1>5 DEF OrderInv
  <1>11. OnceInv'
    <2>1. \A a, b \in proposed' : IdOf(a) = IdOf(b) => a = b
      BY <1>1 DEF OnceInv
    <2>2. ASSUME NEW a \in proposed', NEW k \in 1 .. Len(log')
          PROVE  IdOf(a) # IdOf(log'[k])
      <3>1. CASE k = len + 1
        BY <3>1, <1>1, <1>3 DEF OnceInv
      <3>2. CASE k \in 1 .. len
        BY <3>2, <1>1, <1>3 DEF OnceInv, len
      <3> QED BY <3>1, <3>2, <1>4
    <2>3. ASSUME NEW k \in 1 .. Len(log'), NEW l \in 1 .. Len(log'),
                 IdOf(log'[k]) = IdOf(log'[l])
          PROVE  k = l
      <3>1. CASE k = len + 1 /\ l = len + 1
        BY <3>1
      <3>2. CASE k \in 1 .. len /\ l \in 1 .. len
        BY <3>2, <2>3, <1>3 DEF OnceInv, len
      <3>3. \A j \in 1 .. len : IdOf(log'[j]) # IdOf(cmd)
        BY <1>3 DEF OnceInv, len
      <3> QED BY <3>1, <3>2, <3>3, <2>3, <1>3, <1>4
    <2> QED BY <2>1, <2>2, <2>3 DEF OnceInv, IdOf
  <1>12. MadeInv'
    <2>1. ASSUME NEW x \in proposed' PROVE \E c \in Clients : MadeBy(x, c)'
      BY <1>1, <1>5 DEF MadeInv
    <2>2. ASSUME NEW k \in 1 .. Len(log') PROVE \E c \in Clients : MadeBy(log'[k], c)
      <3>1. CASE k = len + 1
        BY <3>1, <1>3 DEF MadeInv
      <3>2. CASE k \in 1 .. len
        BY <3>2, <1>3 DEF MadeInv, len
      <3> QED BY <3>1, <3>2, <1>4
    <2>3. ASSUME NEW k \in 1 .. Len(log') PROVE \E c \in Clients : MadeBy(log[k], c)'
      BY <2>2, <1>1 DEF MadeBy, IsOf, CommandOf
    <2> QED BY <2>1, <2>3 DEF MadeInv
  <1>13. ResponseInv'
    <2> SUFFICES ASSUME NEW c \in Clients
                 PROVE
          /\ \A i \in 1 .. Len(to_client'[c]) : to_client'[c][i] # StartSignal =>
               /\ \E k \in 1 .. Applied(server_id[c])' : Answers(to_client[c][i], c, k)'
               /\ ~request_data'[c][to_client'[c][i].id + 1].answered
               /\ \A j \in 1 .. Len(to_client'[c]) :
                      /\ to_client'[c][j] # StartSignal
                      /\ to_client'[c][j].id = to_client'[c][i].id
                      => j = i
          /\ \A i \in 1 .. Len(request_data'[c]) : request_data'[c][i].answered =>
               \E k \in 1 .. Applied(server_id[c])' :
                   IsOf(log[k], c)' /\ log'[k].id = i - 1
      BY DEF ResponseInv
    <2>0. UNCHANGED <<to_client, request_data>>
      BY <1>1
    <2>1. ASSUME NEW i \in 1 .. Len(to_client[c]), to_client[c][i] # StartSignal
          PROVE  \E k \in 1 .. Applied(server_id[c]) : Answers(to_client[c][i], c, k)'
      <3>1. PICK k \in 1 .. Applied(server_id[c]) : Answers(to_client[c][i], c, k)
        BY <2>1 DEF ResponseInv
      <3>2. k \in 1 .. len
        BY <1>9
      <3>3. ASSUME NEW x, x = to_client[c][i] PROVE Answers(x, c, k)'
        BY <3>1, <3>2, <3>3, <1>6
      <3> QED BY <3>3, <1>1
    <2>2. ASSUME NEW i \in 1 .. Len(request_data[c]), request_data[c][i].answered
          PROVE  \E k \in 1 .. Applied(server_id[c]) :
                     IsOf(log[k], c)' /\ log'[k].id = i - 1
      <3>1. PICK k \in 1 .. Applied(server_id[c]) : IsOf(log[k], c) /\ log[k].id = i - 1
        BY <2>2 DEF ResponseInv
      <3> QED BY <3>1, <1>3, <1>6, <1>9
    <2>3. \A i \in 1 .. Len(to_client[c]) : to_client[c][i] # StartSignal =>
               /\ ~request_data[c][to_client[c][i].id + 1].answered
               /\ \A j \in 1 .. Len(to_client[c]) :
                      /\ to_client[c][j] # StartSignal
                      /\ to_client[c][j].id = to_client[c][i].id
                      => j = i
      BY DEF ResponseInv
    <2> QED BY <2>0, <2>1, <2>2, <2>3, <1>8
  <1>14. ResultInv'
    <2> SUFFICES ASSUME NEW r \in results
                 PROVE  \E k \in 1 .. Len(log') : Answers(r.response, r.client, k)'
      BY <1>1 DEF ResultInv
    <2>1. PICK k \in 1 .. len : Answers(r.response, r.client, k)
      BY DEF ResultInv, len
    <2> QED BY <2>1, <1>4, <1>6
  <1>15. ResponsesCountedOnce'
    BY <1>1 DEF ResponsesCountedOnce
  <1> QED BY <1>10, <1>11, <1>12, <1>13, <1>14, <1>15

------------------------------------------------------------------------------
(* A command is executed, and answered by its coordinator.                  *)

LEMMA AnswerId ==
    ASSUME ClusterInv, NEW c, NEW k \in 1 .. Len(log), NEW x, Answers(x, c, k)
    PROVE  x.id = log[k].id /\ log[k].id \in Nat
  <1>1. /\ log[k] \in Commands /\ states[k] \in Databases
    <2>1. /\ log \in Seq(Commands) /\ states \in Seq(Databases)
          /\ Len(states) = Len(log) + 1
      BY DEF ClusterInv, ServerTypeOK, ReplicaInv
    <2> QED BY <2>1
  <1>2. log[k].id \in Nat /\ log[k].kv_cmd \in KVCommand
    BY <1>1 DEF Commands
  <1> QED BY <1>1, <1>2, ResponseType DEF Answers

LEMMA ExecuteAnswers ==
    ASSUME RegInv, ClusterInv, AnswerInv, UNCHANGED clientVars, NEW s \in Servers,
           update_database_and_respond(s)
    PROVE  AnswerInv'
  <1> USE DEF AnswerInv
  <1> DEFINE command == Head(decided_commands[s])
             response == response_to(database[s], command.kv_cmd, command.id)
             messages == [id \in {command.client_id} |-> response]
             p == Applied(s) + 1
  <1>1. /\ decided_commands[s] # <<>>
        /\ \/ command.coordinator_id = s /\ send_to_clients(s, messages)
           \/ UNCHANGED to_client
        /\ decided_commands' = [decided_commands EXCEPT ![s] = Tail(@)]
        /\ UNCHANGED <<conn_id, to_server>>
        /\ UNCHANGED <<current_decided_idx, proposed, log, states>>
        /\ UNCHANGED <<request_data, response_count, results>>
    BY DEF update_database_and_respond, registrationVars, libVars, clientVars
  <1>2. /\ decided_commands \in [Servers -> Seq(Commands)]
        /\ current_decided_idx[s] \in Nat
        /\ Len(decided_commands[s]) \in Nat /\ decided_commands[s] \in Seq(Commands)
        /\ log \in Seq(Commands) /\ Len(log) \in Nat
        /\ database[s] \in Databases
    BY DEF ClusterInv, ServerTypeOK
  <1>3. /\ Applied(s) \in Nat /\ p \in 1 .. Len(log)
        /\ command = log[p] /\ database[s] = states[p]
    <2>1. Len(decided_commands[s]) >= 1 /\ command = decided_commands[s][1]
      BY <1>1, <1>2
    <2>2. /\ current_decided_idx[s] <= Len(log)
          /\ Len(decided_commands[s]) <= current_decided_idx[s]
          /\ \A j \in 1 .. Len(decided_commands[s]) :
                 decided_commands[s][j] = log[Applied(s) + j]
          /\ database[s] = states[Applied(s) + 1]
      BY DEF ClusterInv, ReplicaInv
    <2>3. Applied(s) = current_decided_idx[s] - Len(decided_commands[s])
      BY DEF Applied
    <2> QED BY <2>1, <2>2, <2>3, <1>2
  <1>4. /\ command \in Commands /\ command.id \in Nat /\ command.kv_cmd \in KVCommand
        /\ command.client_id \in ClientIds
    <2>1. command \in Commands
      BY <1>2, <1>3
    <2> HIDE DEF command
    <2> QED BY <2>1 DEF Commands
  <1>5. response \in ServerMessages /\ response.id = command.id
    BY <1>2, <1>4, ResponseType
  <1>6. \A x, c : IsOf(x, c) <=> IsOf(x, c)'
    BY <1>1 DEF IsOf
  <1>7. /\ \A k, c : IsOf(log[k], c) => IsOf(log[k], c)'
        /\ \A x, c, k : Answers(x, c, k) => Answers(x, c, k)'
    BY <1>1 DEF IsOf, Answers
  <1>8. ASSUME NEW c \in Clients
        PROVE  /\ Applied(server_id[c])' \in Nat
               /\ Applied(server_id[c]) \in Nat
               /\ Applied(server_id[c]) <= Len(log)
               /\ Applied(server_id[c]) <= Applied(server_id[c])'
               /\ server_id[c] = s => Applied(server_id[c])' = p
    <2>1. server_id[c] \in Servers
      BY NetworkAssumption DEF NetworkAssumption
    <2>2. Applied(server_id[c]) \in Nat /\ Applied(server_id[c]) <= Len(log)
      BY <2>1, AppliedRange
    <2>3. CASE server_id[c] = s
      <3>1. Len(decided_commands'[s]) = Len(decided_commands[s]) - 1
        BY <1>1, <1>2
      <3>2. Applied(server_id[c])' = p
        BY <3>1, <2>3, <1>1, <1>2 DEF Applied
      <3> QED BY <3>2, <2>2, <2>3, <1>3
    <2>4. CASE server_id[c] # s
      <3>1. decided_commands'[server_id[c]] = decided_commands[server_id[c]]
        BY <1>1, <1>2, <2>1, <2>4
      <3>2. Applied(server_id[c])' = Applied(server_id[c])
        BY <3>1, <1>1 DEF Applied
      <3> QED BY <3>2, <2>2, <2>4
    <2> QED BY <2>3, <2>4
  <1>9. ASSUME NEW c \in Clients
        PROVE  \/ to_client'[c] = to_client[c]
               \/ /\ IsOf(command, c)
                  /\ server_id[c] = s
                  /\ to_client'[c] = Append(to_client[c], response)
    <2>1. CASE UNCHANGED to_client
      BY <2>1
    <2>2. CASE command.coordinator_id = s /\ send_to_clients(s, messages)
      <3>1. /\ DOMAIN messages \subseteq ClientIds
            /\ \A id \in DOMAIN messages :
                   id = command.client_id /\ messages[id] = response
        BY <1>4
      <3>2. \A id \in DOMAIN messages : messages[id] \in ServerMessages
        BY <3>1, <1>5
      <3> HIDE DEF messages, response
      <3>3. \/ to_client'[c] = to_client[c]
            \/ \E id \in DOMAIN messages :
                   /\ server_id[c] = s
                   /\ conn_id[c] = id
                   /\ to_client'[c] = Append(to_client[c], messages[id])
        BY <2>2, <3>1, <3>2, Sending DEF ClusterInv
      <3> QED BY <2>2, <3>1, <3>3 DEF IsOf
    <2> QED BY <1>1, <2>1, <2>2
  <1>10. \A c \in Clients : \A x :
             (\E k \in 1 .. Applied(server_id[c]) : Answers(x, c, k))
                 => \E k \in 1 .. Applied(server_id[c])' : Answers(x, c, k)'
    BY <1>7, <1>8
  \* No executed entry was for the same request.
  <1>11. ASSUME NEW c \in Clients, IsOf(command, c), server_id[c] = s,
                NEW k \in 1 .. Applied(s), IsOf(log[k], c)
         PROVE  log[k].id # command.id
    <2>1. k \in 1 .. Len(log) /\ k # p
      BY <1>3
    <2>2. log[k].id = command.id => IdOf(log[k]) = IdOf(command)
      BY <1>11 DEF IsOf, IdOf
    <2> QED BY <2>1, <2>2, <1>3 DEF OnceInv
  <1> HIDE DEF command, messages
  <1>12. ASSUME NEW c \in Clients, IsOf(command, c), server_id[c] = s
         PROVE  /\ \A x : x = response =>
                       \E k \in 1 .. Applied(server_id[c])' : Answers(x, c, k)'
                /\ ~request_data[c][command.id + 1].answered
                /\ \A j \in 1 .. Len(to_client[c]) :
                       to_client[c][j] # StartSignal => to_client[c][j].id # command.id
    <2>1. Answers(response, c, p)
      BY <1>3, <1>12 DEF Answers
    <2>2. p \in 1 .. Applied(server_id[c])'
      BY <1>3, <1>8, <1>12
    <2>3. \A x, k : x = response /\ k = p => Answers(x, c, k)'
      BY <2>1, <1>7
    <2>4. ~request_data[c][command.id + 1].answered
      <3>1. command.id < Len(request_data[c])
        BY <1>3, <1>12 DEF ClusterInv, MessageInv, KnownCommand, IsOf
      <3>2. request_data[c] \in Seq(RequestData)
        BY DEF ClusterInv, ClientTypeOK
      <3>3. command.id + 1 \in 1 .. Len(request_data[c]) /\ (command.id + 1) - 1 = command.id
        BY <3>1, <3>2, <1>4
      <3> QED BY <3>3, <1>11, <1>12 DEF ResponseInv
    <2>5. ASSUME NEW j \in 1 .. Len(to_client[c]), to_client[c][j] # StartSignal
          PROVE  to_client[c][j].id # command.id
      <3>1. PICK k \in 1 .. Applied(s) : Answers(to_client[c][j], c, k)
        BY <2>5, <1>12 DEF ResponseInv
      <3>2. k \in 1 .. Len(log)
        BY <1>3
      <3>3. to_client[c][j].id = log[k].id
        BY <3>1, <3>2, AnswerId
      <3> QED BY <3>1, <3>3, <1>11, <1>12 DEF Answers
    <2> HIDE DEF response, p
    <2> QED BY <2>2, <2>3, <2>4, <2>5
  <1> HIDE DEF response, p
  <1>13. ResponseInv'
    <2> SUFFICES ASSUME NEW c \in Clients
                 PROVE
          /\ \A i \in 1 .. Len(to_client'[c]) : to_client'[c][i] # StartSignal =>
               /\ \E k \in 1 .. Applied(server_id[c])' : Answers(to_client[c][i], c, k)'
               /\ ~request_data'[c][to_client'[c][i].id + 1].answered
               /\ \A j \in 1 .. Len(to_client'[c]) :
                      /\ to_client'[c][j] # StartSignal
                      /\ to_client'[c][j].id = to_client'[c][i].id
                      => j = i
          /\ \A i \in 1 .. Len(request_data'[c]) : request_data'[c][i].answered =>
               \E k \in 1 .. Applied(server_id[c])' :
                   IsOf(log[k], c)' /\ log'[k].id = i - 1
      BY DEF ResponseInv
    <2>0. UNCHANGED <<request_data, log>>
      BY <1>1
    <2>1. ASSUME NEW i \in 1 .. Len(request_data[c]), request_data[c][i].answered
          PROVE  \E k \in 1 .. Applied(server_id[c])' :
                     IsOf(log[k], c)' /\ log'[k].id = i - 1
      <3>1. PICK k \in 1 .. Applied(server_id[c]) : IsOf(log[k], c) /\ log[k].id = i - 1
        BY <2>1 DEF ResponseInv
      <3>2. k \in 1 .. Applied(server_id[c])'
        BY <1>8
      <3> QED BY <3>1, <3>2, <2>0, <1>7
    <2>2. ASSUME NEW i \in 1 .. Len(to_client[c]), to_client[c][i] # StartSignal
          PROVE  /\ \A x : x = to_client[c][i] =>
                        \E k \in 1 .. Applied(server_id[c])' : Answers(x, c, k)'
                 /\ ~request_data[c][to_client[c][i].id + 1].answered
                 /\ \A j \in 1 .. Len(to_client[c]) :
                      /\ to_client[c][j] # StartSignal
                      /\ to_client[c][j].id = to_client[c][i].id
                      => j = i
      BY <2>2, <1>10 DEF ResponseInv
    <2>3. CASE to_client'[c] = to_client[c]
      BY <2>0, <2>1, <2>2, <2>3
    <2>4. CASE /\ IsOf(command, c) /\ server_id[c] = s
               /\ to_client'[c] = Append(to_client[c], response)
      <3> DEFINE n == Len(to_client[c])
      <3>1. to_client[c] \in Seq(ServerMessages) /\ n \in Nat
        BY DEF ClusterInv, LinkTypeOK
      <3>2. /\ Len(to_client'[c]) = n + 1 /\ to_client'[c][n + 1] = response
            /\ \A i \in 1 .. n : to_client'[c][i] = to_client[c][i]
        BY <2>4, <3>1
      <3>3. \A i \in 1 .. (n + 1) : i \in 1 .. n \/ i = n + 1
        BY <3>1
      <3>4. /\ \A x : x = response =>
                    \E k \in 1 .. Applied(server_id[c])' : Answers(x, c, k)'
            /\ ~request_data[c][command.id + 1].answered
            /\ \A j \in 1 .. n :
                   to_client[c][j] # StartSignal => to_client[c][j].id # command.id
        BY <2>4, <1>12
      <3> HIDE DEF n
      <3>5. ASSUME NEW i \in 1 .. Len(to_client'[c]), to_client'[c][i] # StartSignal
            PROVE
               /\ \E k \in 1 .. Applied(server_id[c])' : Answers(to_client[c][i], c, k)'
               /\ ~request_data'[c][to_client'[c][i].id + 1].answered
               /\ \A j \in 1 .. Len(to_client'[c]) :
                      /\ to_client'[c][j] # StartSignal
                      /\ to_client'[c][j].id = to_client'[c][i].id
                      => j = i
        <4>1. CASE i \in 1 .. n
          <5>1. \E k \in 1 .. Applied(server_id[c])' : Answers(to_client[c][i], c, k)'
            BY <4>1, <3>2, <3>5, <2>2 DEF n
          <5>2. ~request_data'[c][to_client'[c][i].id + 1].answered
            BY <4>1, <3>2, <3>5, <2>0, <2>2 DEF n
          <5>3. \A j \in 1 .. n :
                      /\ to_client'[c][j] # StartSignal
                      /\ to_client'[c][j].id = to_client'[c][i].id
                      => j = i
            BY <4>1, <3>2, <3>5, <2>2 DEF n
          <5>4. to_client'[c][n + 1].id # to_client'[c][i].id
            BY <4>1, <3>2, <3>4, <3>5, <1>5
          <5> QED BY <5>1, <5>2, <5>3, <5>4, <3>2, <3>3
        <4>2. CASE i = n + 1
          <5>1. \E k \in 1 .. Applied(server_id[c])' : Answers(to_client[c][i], c, k)'
            BY <4>2, <3>2, <3>4
          <5>2. ~request_data'[c][to_client'[c][i].id + 1].answered
            BY <4>2, <3>2, <3>4, <2>0, <1>5
          <5>3. \A j \in 1 .. n : to_client'[c][j] # StartSignal =>
                    to_client'[c][j].id # to_client'[c][i].id
            BY <4>2, <3>2, <3>4, <1>5
          <5> QED BY <5>1, <5>2, <5>3, <4>2, <3>2, <3>3
        <4> QED BY <4>1, <4>2, <3>2, <3>3
      <3> QED BY <3>5, <2>0, <2>1
    <2> QED BY <2>3, <2>4, <1>9
  <1>14. OrderInv' /\ OnceInv' /\ MadeInv'
    BY <1>1 DEF OrderInv, OnceInv, MadeInv, IsOf, IdOf, MadeBy, CommandOf
  <1>15. ResultInv' /\ ResponsesCountedOnce'
    BY <1>1 DEF ResultInv, ResponsesCountedOnce, Answers, IsOf
  <1> QED BY <1>13, <1>14, <1>15

------------------------------------------------------------------------------
(* A request is appended.                                                   *)

LEMMA AppendAnswers ==
    ASSUME RegInv, ClusterInv, AnswerInv, UNCHANGED clientVars, NEW s \in Servers,
           NEW c \in Clients, handle_client_message(s, c)
    PROVE  AnswerInv'
  <1> USE DEF AnswerInv
  <1> DEFINE message == Head(to_server[c])
             cmd == append_to_log(s, conn_id[c], message)
  <1>1. /\ server_id[c] = s
        /\ to_server[c] # <<>>
        /\ to_server' = [to_server EXCEPT ![c] = Tail(@)]
        /\ proposed' = proposed \cup {cmd}
        /\ UNCHANGED <<conn_id, to_client>>
        /\ UNCHANGED <<current_decided_idx, decided_commands, log, states>>
        /\ UNCHANGED <<request_data, response_count, results>>
    BY DEF handle_client_message, registrationVars, localVars, clientVars
  <1>2. /\ to_server \in [Clients -> Seq(ClientMessages)]
        /\ to_server[c] \in Seq(ClientMessages)
    BY DEF ClusterInv, LinkTypeOK
  <1>3. /\ 1 \in 1 .. Len(to_server[c]) /\ message = to_server[c][1]
        /\ message \in ClientMessages
    BY <1>1, <1>2
  <1>4. /\ cmd.id = message.id /\ cmd.coordinator_id = s /\ cmd.client_id = conn_id[c]
        /\ cmd.kv_cmd = message.cmd /\ message.id \in Nat
    BY <1>3 DEF append_to_log, ClientMessages
  <1> HIDE DEF cmd
  <1>5. conn_id[c] # 0
    BY <1>1 DEF ClusterInv, StartInv
  <1>6. \A d \in Clients : IsOf(cmd, d) <=> d = c
    BY <1>1, <1>4, <1>5 DEF IsOf, RegInv, IdInv
  <1>7. /\ \A x \in proposed : IsOf(x, c) => x.id < message.id
        /\ \A k \in 1 .. Len(log) : IsOf(log[k], c) => log[k].id < message.id
        /\ message.cmd = CommandOf(c, message.id)
        /\ \A j \in 1 .. Len(to_server[c]) : 1 < j => message.id < to_server[c][j].id
    BY <1>3 DEF OrderInv
  <1>8. /\ \A x : \A d : IsOf(x, d)' = IsOf(x, d) /\ MadeBy(x, d)' = MadeBy(x, d)
        /\ \A d, id : CommandOf(d, id)' = CommandOf(d, id)
    BY <1>1 DEF IsOf, MadeBy, CommandOf
  <1> HIDE DEF message
  <1>9. OrderInv'
    <2> SUFFICES ASSUME NEW d \in Clients, NEW i \in 1 .. Len(to_server'[d])
                 PROVE  /\ to_server'[d][i].cmd = CommandOf(d, to_server[d][i].id)'
                        /\ \A j \in 1 .. Len(to_server'[d]) :
                               i < j => to_server'[d][i].id < to_server'[d][j].id
                        /\ \A x \in proposed' : IsOf(x, d)' => x.id < to_server'[d][i].id
                        /\ \A k \in 1 .. Len(log') :
                               IsOf(log[k], d)' => log'[k].id < to_server'[d][i].id
      BY DEF OrderInv
    <2>1. CASE d # c
      <3>1. to_server'[d] = to_server[d]
        BY <1>1, <1>2, <2>1
      <3>2. \A x \in proposed' : IsOf(x, d) => x \in proposed
        BY <1>1, <1>6, <2>1
      <3>3. \A k : IsOf(log[k], d)' => IsOf(log[k], d)
        BY <1>1 DEF IsOf
      <3>4. to_server'[d][i].cmd = CommandOf(d, to_server[d][i].id)'
        BY <3>1, <1>1 DEF OrderInv, CommandOf
      <3> QED BY <3>1, <3>2, <3>3, <3>4, <1>1, <1>8 DEF OrderInv
    <2>2. CASE d = c
      <3>1. /\ Len(to_server'[c]) = Len(to_server[c]) - 1
            /\ \A j \in 1 .. Len(to_server'[c]) :
                   /\ j + 1 \in 1 .. Len(to_server[c]) /\ 1 < j + 1
                   /\ to_server'[c][j] = to_server[c][j + 1]
        <4>1. to_server'[c] = Tail(to_server[c])
          BY <1>1, <1>2
        <4> QED BY <4>1, <1>1, <1>2
      <3>2. i + 1 \in 1 .. Len(to_server[c]) /\ to_server'[c][i] = to_server[c][i + 1]
        BY <2>2, <3>1
      <3>3. to_server'[d][i].cmd = CommandOf(d, to_server[d][i].id)'
        BY <2>2, <3>2, <1>1 DEF OrderInv, CommandOf
      <3>4. ASSUME NEW j \in 1 .. Len(to_server'[c]), i < j
            PROVE  to_server'[c][i].id < to_server'[c][j].id
        <4>1. i + 1 < j + 1
          BY <3>4
        <4> QED BY <4>1, <3>1, <3>2 DEF OrderInv
      <3>5. ASSUME NEW x \in proposed', IsOf(x, c) PROVE x.id < to_server'[c][i].id
        <4>1. CASE x \in proposed
          BY <4>1, <3>2, <3>5 DEF OrderInv
        <4>2. CASE x = cmd
          BY <4>2, <2>2, <3>1, <3>2, <1>4, <1>7
        <4> QED BY <4>1, <4>2, <1>1
      <3>6. \A k \in 1 .. Len(log) : IsOf(log[k], c) => log[k].id < to_server'[c][i].id
        BY <3>2 DEF OrderInv
      <3>7. \A k : IsOf(log[k], c)' => IsOf(log[k], c)
        BY <1>1 DEF IsOf
      <3> QED BY <2>2, <3>3, <3>4, <3>5, <3>6, <3>7, <1>1, <1>8
    <2> QED BY <2>1, <2>2
  <1>10. OnceInv'
    <2>1. ASSUME NEW x \in proposed PROVE IdOf(x) # IdOf(cmd)
      <3>1. x \in Commands
        BY DEF ClusterInv, ServerTypeOK
      <3>2. x.id \in Nat
        BY <3>1 DEF Commands
      <3>3. IdOf(x) = IdOf(cmd) => IsOf(x, c) /\ x.id = message.id
        BY <1>1, <1>4 DEF IdOf, IsOf
      <3> QED BY <3>2, <3>3, <1>4, <1>7
    <2>2. ASSUME NEW k \in 1 .. Len(log) PROVE IdOf(log[k]) # IdOf(cmd)
      <3>1. log[k] \in Commands
        BY DEF ClusterInv, ServerTypeOK
      <3>2. log[k].id \in Nat
        BY <3>1 DEF Commands
      <3>3. IdOf(log[k]) = IdOf(cmd) => IsOf(log[k], c) /\ log[k].id = message.id
        BY <1>1, <1>4 DEF IdOf, IsOf
      <3> QED BY <3>2, <3>3, <1>4, <1>7
    <2>3. \A a, b \in proposed' : IdOf(a) = IdOf(b) => a = b
      BY <2>1, <1>1 DEF OnceInv
    <2>4. \A a \in proposed' : \A k \in 1 .. Len(log) : IdOf(a) # IdOf(log[k])
      BY <2>2, <1>1 DEF OnceInv
    <2> QED BY <2>3, <2>4, <1>1 DEF OnceInv, IdOf
  <1>11. MadeInv'
    <2>1. MadeBy(cmd, c)
      BY <1>4, <1>6, <1>7 DEF MadeBy
    <2>2. \A x \in proposed' : \E d \in Clients : MadeBy(x, d)'
      BY <2>1, <1>1, <1>8 DEF MadeInv
    <2>3. \A k \in 1 .. Len(log) : \E d \in Clients : MadeBy(log[k], d)'
      BY <1>1 DEF MadeInv, MadeBy, IsOf, CommandOf
    <2> QED BY <2>2, <2>3, <1>1 DEF MadeInv
  <1>12. ResponseInv'
    BY <1>1 DEF ResponseInv, Answers, IsOf, Applied
  <1>13. ResultInv' /\ ResponsesCountedOnce'
    BY <1>1 DEF ResultInv, ResponsesCountedOnce, Answers, IsOf
  <1> QED BY <1>9, <1>10, <1>11, <1>12, <1>13

------------------------------------------------------------------------------
(* A response is recorded.                                                  *)

LEMMA RecordAnswers ==
    ASSUME ClusterInv, AnswerInv, UNCHANGED serverVars, NEW c \in Clients,
           handle_server_message(c), Head(to_client[c]) # StartSignal
    PROVE  AnswerInv'
  <1> USE DEF AnswerInv
  <1> DEFINE msg == Head(to_client[c])
             n == msg.id + 1
  <1>1. /\ to_client[c] # <<>>
        /\ UNCHANGED <<conn_id, proposed, log, states>>
        /\ UNCHANGED <<current_decided_idx, decided_commands>>
    BY DEF handle_server_message, registrationVars, serverVars, localVars, libVars
  <1>2. /\ to_client \in [Clients -> Seq(ServerMessages)]
        /\ to_client[c] \in Seq(ServerMessages)
        /\ 1 \in 1 .. Len(to_client[c]) /\ msg = to_client[c][1]
    BY <1>1 DEF ClusterInv, LinkTypeOK
  <1>3. /\ request_data \in [Clients -> Seq(RequestData)]
        /\ \A d \in Clients : /\ request_data[d] \in Seq(RequestData)
                              /\ Len(request_data[d]) \in Nat
                              /\ DOMAIN request_data[d] = 1 .. Len(request_data[d])
        /\ response_count \in [Clients -> Nat]
    BY DEF ClusterInv, ClientTypeOK
  <1>4. msg.id \in Nat /\ n \in 1 .. Len(request_data[c]) /\ n = msg.id + 1
    <2>1. msg \in ServerMessages
      BY <1>2
    <2>2. msg.id \in Nat
      BY <2>1 DEF ServerMessages
    <2>3. msg.id < Len(request_data[c])
      BY <1>2 DEF ClusterInv, MessageInv
    <2> QED BY <2>2, <2>3, <1>3
  <1>5. /\ request_data' = [request_data EXCEPT ![c][n].answered = TRUE]
        /\ response_count' = [response_count EXCEPT ![c] = @ + 1]
        /\ results' = results \cup {[client |-> c, response |-> msg]}
        /\ \/ /\ to_client' = [to_client EXCEPT ![c] = <<>>]
              /\ \E p \in Prefixes(to_server[c]) : to_server' = [to_server EXCEPT ![c] = p]
           \/ /\ to_client' = [to_client EXCEPT ![c] = Tail(@)]
              /\ to_server' = to_server
    BY <1>3, <1>4 DEF handle_server_message, shutdown
  <1> HIDE DEF msg
  <1>6. \A d \in Clients : Stretch(to_server'[d], to_server[d])
    BY <1>1, <1>5, OneLinkLoses DEF ClusterInv
  <1>7. /\ \A d \in Clients \ {c} : to_client'[d] = to_client[d]
        /\ \A i \in 1 .. Len(to_client'[c]) :
               /\ i + 1 \in 1 .. Len(to_client[c]) /\ i + 1 # 1
               /\ to_client'[c][i] = to_client[c][i + 1]
    <2>1. to_client'[c] = <<>> \/ to_client'[c] = Tail(to_client[c])
      BY <1>2, <1>5
    <2> QED BY <2>1, <1>1, <1>2, <1>5
  \* The table of requests: one more answer, the rest as before.
  <1>8. /\ \A d \in Clients \ {c} : request_data'[d] = request_data[d]
        /\ Len(request_data'[c]) = Len(request_data[c])
        /\ DOMAIN request_data'[c] = 1 .. Len(request_data[c])
        /\ \A i \in 1 .. Len(request_data[c]) :
               /\ request_data'[c][i].write = request_data[c][i].write
               /\ request_data'[c][i].answered <=> request_data[c][i].answered \/ i = n
    <2> DEFINE r == [request_data[c][n] EXCEPT !.answered = TRUE]
               q == [request_data[c] EXCEPT ![n] = r]
    <2>1. request_data[c][n] \in RequestData
      BY <1>3, <1>4
    <2>2. r.answered = TRUE /\ r.write = request_data[c][n].write /\ r \in RequestData
      BY <2>1 DEF RequestData
    <2>3. request_data'[c] = q /\ \A d \in Clients \ {c} : request_data'[d] = request_data[d]
      BY <1>3, <1>5
    <2> HIDE DEF r, n
    <2>4. /\ q \in Seq(RequestData) /\ Len(q) = Len(request_data[c])
          /\ DOMAIN q = 1 .. Len(request_data[c])
          /\ \A i \in 1 .. Len(request_data[c]) :
                 q[i] = IF i = n THEN r ELSE request_data[c][i]
      BY <2>2, <1>3, <1>4
    <2> HIDE DEF q
    <2> QED BY <2>2, <2>3, <2>4
  <1> HIDE DEF n
  <1>9. ASSUME NEW d \in Clients, NEW id \in Nat, id < Len(request_data[d])
        PROVE  CommandOf(d, id)' = CommandOf(d, id)
    <2>1. id + 1 \in 1 .. Len(request_data[d])
      BY <1>3, <1>9
    <2>2. request_data'[d][id + 1].write = request_data[d][id + 1].write
      BY <2>1, <1>8
    <2> QED BY <2>2 DEF CommandOf
  <1>10. /\ \A x, d : IsOf(x, d)' = IsOf(x, d)
         /\ \A k, d : IsOf(log[k], d)' = IsOf(log[k], d)
         /\ \A x, d, k : Answers(x, d, k)' = Answers(x, d, k)
    BY <1>1 DEF IsOf, Answers
  <1>11. \A s : Applied(s)' = Applied(s)
    BY <1>1 DEF Applied
  <1>12. OrderInv'
    <2> SUFFICES ASSUME NEW d \in Clients, NEW i \in 1 .. Len(to_server'[d])
                 PROVE  /\ to_server'[d][i].cmd = CommandOf(d, to_server[d][i].id)'
                        /\ \A j \in 1 .. Len(to_server'[d]) :
                               i < j => to_server'[d][i].id < to_server'[d][j].id
                        /\ \A x \in proposed' : IsOf(x, d)' => x.id < to_server'[d][i].id
                        /\ \A k \in 1 .. Len(log') :
                               IsOf(log[k], d)' => log'[k].id < to_server'[d][i].id
      BY DEF OrderInv
    <2>1. PICK e \in Nat : \A j \in 1 .. Len(to_server'[d]) :
              j + e \in 1 .. Len(to_server[d]) /\ to_server'[d][j] = to_server[d][j + e]
      BY <1>6 DEF Stretch
    <2>2. i + e \in 1 .. Len(to_server[d]) /\ to_server'[d][i] = to_server[d][i + e]
      BY <2>1
    <2>3. to_server'[d][i].cmd = CommandOf(d, to_server[d][i].id)'
      <3>1. to_server[d][i + e] \in ClientMessages
        BY <2>2 DEF ClusterInv, LinkTypeOK
      <3>2. to_server[d][i + e].id \in Nat
        BY <3>1 DEF ClientMessages
      <3>3. to_server[d][i + e].id < Len(request_data[d])
        BY <2>2 DEF ClusterInv, MessageInv
      <3>4. to_server[d][i + e].cmd = CommandOf(d, to_server[d][i + e].id)
        BY <2>2 DEF OrderInv
      <3>5. \A id : id = to_server[d][i + e].id => CommandOf(d, id)' = CommandOf(d, id)
        BY <3>2, <3>3, <1>9
      <3> QED BY <3>4, <3>5, <2>2
    <2>4. ASSUME NEW j \in 1 .. Len(to_server'[d]), i < j
          PROVE  to_server'[d][i].id < to_server'[d][j].id
      <3>1. j + e \in 1 .. Len(to_server[d]) /\ to_server'[d][j] = to_server[d][j + e]
        BY <2>1
      <3>2. i + e < j + e
        BY <2>4
      <3> QED BY <2>2, <3>1, <3>2 DEF OrderInv
    <2> QED BY <2>2, <2>3, <2>4, <1>1, <1>10 DEF OrderInv
  <1>13. OnceInv'
    BY <1>1 DEF OnceInv, IdOf
  <1>14. ASSUME NEW x \in Commands, KnownCommand(x), NEW d \in Clients, MadeBy(x, d)
         PROVE  IsOf(x, d) /\ x.kv_cmd = CommandOf(d, x.id)'
    <2>1. x.id \in Nat
      BY DEF Commands
    <2>2. x.id < Len(request_data[d])
      BY <1>14 DEF KnownCommand, MadeBy, IsOf
    <2> QED BY <2>1, <2>2, <1>9, <1>14 DEF MadeBy
  <1>15. MadeInv'
    <2>1. ASSUME NEW x \in proposed PROVE \E d \in Clients : MadeBy(x, d)'
      <3>1. x \in Commands /\ KnownCommand(x)
        BY DEF ClusterInv, ServerTypeOK, MessageInv
      <3>2. PICK d \in Clients : MadeBy(x, d)
        BY DEF MadeInv
      <3> QED BY <3>1, <3>2, <1>10, <1>14 DEF MadeBy
    <2>2. ASSUME NEW k \in 1 .. Len(log) PROVE \E d \in Clients : MadeBy(log[k], d)'
      <3>1. log[k] \in Commands /\ KnownCommand(log[k])
        BY DEF ClusterInv, ServerTypeOK, MessageInv
      <3>2. PICK d \in Clients : MadeBy(log[k], d)
        BY DEF MadeInv
      <3>3. \A x : x = log[k] => x.kv_cmd = CommandOf(d, x.id)'
        BY <3>1, <3>2, <1>14
      <3>4. log'[k] = log[k] /\ IsOf(log[k], d)'
        BY <3>2, <1>1, <1>10 DEF MadeBy
      <3> QED BY <3>3, <3>4 DEF MadeBy
    <2> QED BY <2>1, <2>2, <1>1 DEF MadeInv
  <1>16. PICK m \in 1 .. Applied(server_id[c]) : Answers(msg, c, m)
    BY <1>2 DEF ResponseInv, msg
  <1>17. m \in 1 .. Len(log)
    <2>1. server_id[c] \in Servers
      BY NetworkAssumption DEF NetworkAssumption
    <2> QED BY <2>1, AppliedRange
  <1>18. IsOf(log[m], c) /\ log[m].id = n - 1
    <2>1. msg.id = log[m].id
      BY <1>16, <1>17, AnswerId
    <2>2. IsOf(log[m], c)
      BY <1>16 DEF Answers
    <2> QED BY <2>1, <2>2, <1>4
  <1>19. ResponseInv'
    <2> SUFFICES ASSUME NEW d \in Clients
                 PROVE
          /\ \A i \in 1 .. Len(to_client'[d]) : to_client'[d][i] # StartSignal =>
               /\ \E k \in 1 .. Applied(server_id[d])' : Answers(to_client[d][i], d, k)'
               /\ ~request_data'[d][to_client'[d][i].id + 1].answered
               /\ \A j \in 1 .. Len(to_client'[d]) :
                      /\ to_client'[d][j] # StartSignal
                      /\ to_client'[d][j].id = to_client'[d][i].id
                      => j = i
          /\ \A i \in 1 .. Len(request_data'[d]) : request_data'[d][i].answered =>
               \E k \in 1 .. Applied(server_id[d])' :
                   IsOf(log[k], d)' /\ log'[k].id = i - 1
      BY DEF ResponseInv
    <2>1. CASE d # c
      <3>1. UNCHANGED <<to_client[d], request_data[d]>>
        BY <2>1, <1>7, <1>8
      <3>2. ASSUME NEW i \in 1 .. Len(to_client[d]), to_client[d][i] # StartSignal
            PROVE  \E k \in 1 .. Applied(server_id[d])' : Answers(to_client[d][i], d, k)'
        <4>1. PICK k \in 1 .. Applied(server_id[d]) : Answers(to_client[d][i], d, k)
          BY <3>2 DEF ResponseInv
        <4>2. \A x : x = to_client[d][i] => Answers(x, d, k)'
          BY <4>1, <1>10
        <4> QED BY <4>1, <4>2, <3>1, <1>11
      <3>3. \A i \in 1 .. Len(request_data[d]) : request_data[d][i].answered =>
               \E k \in 1 .. Applied(server_id[d])' :
                   IsOf(log[k], d)' /\ log'[k].id = i - 1
        BY <1>1, <1>10, <1>11 DEF ResponseInv
      <3> QED BY <3>1, <3>2, <3>3 DEF ResponseInv
    <2>2. CASE d = c
      <3>1. ASSUME NEW i \in 1 .. Len(to_client'[c]), to_client'[c][i] # StartSignal
            PROVE
               /\ \E k \in 1 .. Applied(server_id[c])' : Answers(to_client[c][i], c, k)'
               /\ ~request_data'[c][to_client'[c][i].id + 1].answered
               /\ \A j \in 1 .. Len(to_client'[c]) :
                      /\ to_client'[c][j] # StartSignal
                      /\ to_client'[c][j].id = to_client'[c][i].id
                      => j = i
        <4>1. /\ i + 1 \in 1 .. Len(to_client[c]) /\ i + 1 # 1
              /\ to_client'[c][i] = to_client[c][i + 1]
          BY <1>7
        <4>2. PICK k \in 1 .. Applied(server_id[c]) : Answers(to_client[c][i + 1], c, k)
          BY <3>1, <4>1 DEF ResponseInv
        <4>3. \A x : x = to_client[c][i + 1] => Answers(x, c, k)'
          BY <4>2, <1>10
        <4>4. \E l \in 1 .. Applied(server_id[c])' : Answers(to_client[c][i], c, l)'
          BY <4>1, <4>2, <4>3, <1>11
        <4>5. ~request_data'[c][to_client'[c][i].id + 1].answered
          <5>1. to_client[c][i + 1].id # msg.id
            BY <3>1, <4>1, <1>2 DEF ResponseInv, msg
          <5>2. ~request_data[c][to_client[c][i + 1].id + 1].answered
            BY <3>1, <4>1 DEF ResponseInv
          <5>3. to_client[c][i + 1].id \in Nat
            <6>1. to_client[c][i + 1] \in ServerMessages
              BY <4>1, <1>2
            <6> QED BY <6>1, <3>1, <4>1 DEF ServerMessages
          <5>4. to_client[c][i + 1].id < Len(request_data[c])
            BY <3>1, <4>1 DEF ClusterInv, MessageInv
          <5>5. /\ to_client[c][i + 1].id + 1 \in 1 .. Len(request_data[c])
                /\ to_client[c][i + 1].id + 1 # n
            <6> DEFINE id == to_client[c][i + 1].id
            <6>1. id \in Nat /\ id # msg.id /\ id < Len(request_data[c])
              BY <5>1, <5>3, <5>4
            <6> HIDE DEF id
            <6>2. id + 1 \in 1 .. Len(request_data[c]) /\ id + 1 # n
              BY <6>1, <1>3, <1>4
            <6> QED BY <6>2 DEF id
          <5> QED BY <4>1, <5>2, <5>5, <1>8
        <4>6. ASSUME NEW j \in 1 .. Len(to_client'[c]), to_client'[c][j] # StartSignal,
                     to_client'[c][j].id = to_client'[c][i].id
              PROVE  j = i
          <5>1. /\ j + 1 \in 1 .. Len(to_client[c])
                /\ to_client'[c][j] = to_client[c][j + 1]
            BY <1>7
          <5>2. j + 1 = i + 1
            BY <5>1, <4>1, <4>6, <3>1 DEF ResponseInv
          <5> QED BY <5>2
        <4> QED BY <4>4, <4>5, <4>6
      <3>2. ASSUME NEW i \in 1 .. Len(request_data'[c]), request_data'[c][i].answered
            PROVE  \E k \in 1 .. Applied(server_id[c])' :
                       IsOf(log[k], c)' /\ log'[k].id = i - 1
        <4>1. CASE i = n
          BY <4>1, <1>1, <1>10, <1>11, <1>18
        <4>2. CASE i # n
          <5>1. i \in 1 .. Len(request_data[c]) /\ request_data[c][i].answered
            BY <4>2, <3>2, <1>8
          <5>2. PICK k \in 1 .. Applied(server_id[c]) : IsOf(log[k], c) /\ log[k].id = i - 1
            BY <5>1 DEF ResponseInv
          <5> QED BY <5>2, <1>1, <1>10, <1>11
        <4> QED BY <4>1, <4>2
      <3> QED BY <2>2, <3>1, <3>2
    <2> QED BY <2>1, <2>2
  <1>20. ResultInv'
    <2> SUFFICES ASSUME NEW r \in results'
                 PROVE  \E k \in 1 .. Len(log) : Answers(r.response, r.client, k)
      BY <1>1, <1>10 DEF ResultInv
    <2>1. CASE r \in results
      BY <2>1 DEF ResultInv
    <2>2. CASE r = [client |-> c, response |-> msg]
      BY <2>2, <1>16, <1>17
    <2> QED BY <2>1, <2>2, <1>5
  <1>21. ResponsesCountedOnce'
    <2> SUFFICES ASSUME NEW d \in Clients
                 PROVE  response_count'[d] =
                          Cardinality({i \in DOMAIN request_data'[d] :
                                           request_data'[d][i].answered})
      BY DEF ResponsesCountedOnce
    <2>1. CASE d # c
      BY <2>1, <1>3, <1>5, <1>8 DEF ResponsesCountedOnce
    <2>2. CASE d = c
      <3> DEFINE S == {i \in DOMAIN request_data[c] : request_data[c][i].answered}
                 T == {i \in DOMAIN request_data'[c] : request_data'[c][i].answered}
      <3>1. response_count[c] = Cardinality(S)
        BY DEF ResponsesCountedOnce
      <3>2. T = S \cup {n}
        BY <1>3, <1>4, <1>8 DEF n
      <3>3. n \notin S
        BY <1>2, <1>4 DEF ResponseInv, n, msg
      <3>4. IsFiniteSet(S)
        <4>1. S \subseteq 1 .. Len(request_data[c])
          BY <1>3
        <4>2. IsFiniteSet(1 .. Len(request_data[c]))
          BY <1>3, FS_Interval
        <4> QED BY <4>1, <4>2, FS_Subset
      <3> HIDE DEF S, T
      <3>5. Cardinality(T) = Cardinality(S) + 1
        BY <3>2, <3>3, <3>4, FS_AddElement
      <3>6. response_count'[c] = response_count[c] + 1
        BY <1>3, <1>5
      <3> QED BY <2>2, <3>1, <3>5, <3>6 DEF T
    <2> QED BY <2>1, <2>2
  <1> QED BY <1>12, <1>13, <1>15, <1>19, <1>20, <1>21

------------------------------------------------------------------------------
(* A request is sent.                                                       *)

LEMMA SendAnswers ==
    ASSUME ClusterInv, AnswerInv, UNCHANGED serverVars, NEW c \in Clients,
           send_request(c)
    PROVE  AnswerInv'
  <1> USE DEF AnswerInv
  <1> DEFINE n == Len(request_data[c])
             r == [write |-> sending[c] = "write", answered |-> FALSE]
  <1>1. /\ \/ to_server' = [to_server EXCEPT ![c] = Append(@, request(c))]
           \/ to_server' = to_server
        /\ request_data' = [request_data EXCEPT ![c] = Append(@, r)]
        /\ UNCHANGED <<conn_id, to_client, response_count, results>>
        /\ UNCHANGED <<proposed, log, states, current_decided_idx, decided_commands>>
    <2>1. to_server = [to_server EXCEPT ![c] = @]
      BY DEF ClusterInv, LinkTypeOK
    <2> QED BY <2>1 DEF send_request, send, registrationVars, serverVars, localVars, libVars
  <1>2. /\ request_data \in [Clients -> Seq(RequestData)]
        /\ \A d \in Clients : /\ request_data[d] \in Seq(RequestData)
                              /\ Len(request_data[d]) \in Nat
                              /\ DOMAIN request_data[d] = 1 .. Len(request_data[d])
        /\ to_server \in [Clients -> Seq(ClientMessages)]
        /\ to_server[c] \in Seq(ClientMessages)
        /\ n \in Nat /\ next_request_id[c] = n
    BY DEF ClusterInv, ClientTypeOK, LinkTypeOK, RequestInv
  <1>3. /\ \A d \in Clients \ {c} : request_data'[d] = request_data[d]
        /\ Len(request_data'[c]) = n + 1
        /\ DOMAIN request_data'[c] = 1 .. (n + 1)
        /\ request_data'[c][n + 1] = r
        /\ \A i \in 1 .. n : request_data'[c][i] = request_data[c][i]
    <2>1. r \in RequestData
      BY DEF RequestData
    <2>2. /\ request_data'[c] = Append(request_data[c], r)
          /\ \A d \in Clients \ {c} : request_data'[d] = request_data[d]
      BY <1>1, <1>2
    <2> HIDE DEF r
    <2> QED BY <2>1, <2>2, <1>2
  <1>4. /\ request(c).id = n
        /\ request(c).cmd = IF r.write THEN Put(n, n) ELSE Get(n)
    BY <1>2 DEF request
  <1>5. ~r.answered
    OBVIOUS
  <1> HIDE DEF n, r
  <1>6. \A k : k = n => request(c).cmd = CommandOf(c, k)'
    BY <1>3, <1>4 DEF CommandOf
  <1>7. ASSUME NEW d \in Clients, NEW i \in 1 .. Len(request_data[d])
        PROVE  i \in 1 .. Len(request_data'[d]) /\ request_data'[d][i] = request_data[d][i]
    <2>1. CASE d = c
      BY <2>1, <1>2, <1>3 DEF n
    <2>2. CASE d # c
      BY <2>2, <1>3
    <2> QED BY <2>1, <2>2
  <1>8. ASSUME NEW d \in Clients, NEW id \in Nat, id < Len(request_data[d])
        PROVE  CommandOf(d, id)' = CommandOf(d, id)
    <2>1. id + 1 \in 1 .. Len(request_data[d])
      BY <1>2, <1>8
    <2> QED BY <2>1, <1>7 DEF CommandOf
  <1>9. /\ \A x, d : IsOf(x, d)' = IsOf(x, d)
        /\ \A k, d : IsOf(log[k], d)' = IsOf(log[k], d)
        /\ \A x, d, k : Answers(x, d, k)' = Answers(x, d, k)
    BY <1>1 DEF IsOf, Answers
  <1>10. \A s : Applied(s)' = Applied(s)
    BY <1>1 DEF Applied
  <1>11. ASSUME NEW d \in Clients, NEW i \in 1 .. Len(to_server[d])
         PROVE  /\ to_server[d][i].id \in Nat
                /\ to_server[d][i].id < Len(request_data[d])
                /\ \A id : id = to_server[d][i].id => to_server[d][i].cmd = CommandOf(d, id)'
    <2>1. to_server[d][i] \in ClientMessages
      BY DEF ClusterInv, LinkTypeOK
    <2>2. to_server[d][i].id \in Nat
      BY <2>1 DEF ClientMessages
    <2>3. to_server[d][i].id < Len(request_data[d])
      BY DEF ClusterInv, MessageInv
    <2>4. to_server[d][i].cmd = CommandOf(d, to_server[d][i].id)
      BY DEF OrderInv
    <2> QED BY <2>2, <2>3, <2>4, <1>8
  <1>12. OrderInv'
    <2> SUFFICES ASSUME NEW d \in Clients, NEW i \in 1 .. Len(to_server'[d])
                 PROVE  /\ to_server'[d][i].cmd = CommandOf(d, to_server[d][i].id)'
                        /\ \A j \in 1 .. Len(to_server'[d]) :
                               i < j => to_server'[d][i].id < to_server'[d][j].id
                        /\ \A x \in proposed' : IsOf(x, d)' => x.id < to_server'[d][i].id
                        /\ \A k \in 1 .. Len(log') :
                               IsOf(log[k], d)' => log'[k].id < to_server'[d][i].id
      BY DEF OrderInv
    <2>1. CASE to_server'[d] = to_server[d]
      BY <2>1, <1>1, <1>9, <1>11 DEF OrderInv
    <2>2. CASE d = c /\ to_server'[c] = Append(to_server[c], request(c))
      <3> DEFINE m == Len(to_server[c])
      <3>1. m \in Nat
        BY <1>2
      <3>2. /\ Len(to_server'[c]) = m + 1 /\ to_server'[c][m + 1] = request(c)
            /\ \A j \in 1 .. m : to_server'[c][j] = to_server[c][j]
        BY <2>2, <1>2
      <3>3. /\ \A j \in 1 .. (m + 1) : j \in 1 .. m \/ j = m + 1
            /\ \A j \in 1 .. m : j < m + 1 /\ ~(m + 1 < j)
            /\ ~(m + 1 < m + 1)
        BY <3>1
      <3>4. \A j \in 1 .. m : to_server[c][j].id < n
        BY <1>11 DEF n
      <3>5. \A x \in proposed : IsOf(x, c) => x.id < n
        BY DEF ClusterInv, MessageInv, KnownCommand, IsOf, n
      <3>6. \A k \in 1 .. Len(log) : IsOf(log[k], c) => log[k].id < n
        BY DEF ClusterInv, MessageInv, KnownCommand, IsOf, n
      <3>7. CASE i \in 1 .. m
        <4>1. to_server'[c][i] = to_server[c][i]
          BY <3>2, <3>7
        <4>2. to_server'[d][i].cmd = CommandOf(d, to_server[d][i].id)'
          BY <2>2, <4>1, <3>7, <1>11
        <4>3. \A j \in 1 .. (m + 1) : i < j => to_server'[c][i].id < to_server'[c][j].id
          <5>1. \A j \in 1 .. m : i < j => to_server[c][i].id < to_server[c][j].id
            BY <3>7 DEF OrderInv
          <5> QED BY <5>1, <4>1, <3>2, <3>3, <3>4, <3>7, <1>4
        <4>4. /\ \A x \in proposed : IsOf(x, c) => x.id < to_server[c][i].id
              /\ \A k \in 1 .. Len(log) : IsOf(log[k], c) => log[k].id < to_server[c][i].id
          BY <3>7 DEF OrderInv
        <4> HIDE DEF m
        <4> QED BY <2>2, <3>2, <4>1, <4>2, <4>3, <4>4, <1>1, <1>9
      <3>8. CASE i = m + 1
        <4>1. to_server'[c][i] = request(c)
          BY <3>2, <3>8
        <4>2. to_server'[d][i].cmd = CommandOf(d, to_server[d][i].id)'
          BY <2>2, <4>1, <1>4, <1>6
        <4> HIDE DEF m
        <4>3. \A j \in 1 .. (m + 1) : ~(i < j)
          BY <3>3, <3>8
        <4> QED BY <2>2, <3>2, <3>5, <3>6, <4>1, <4>2, <4>3, <1>1, <1>4, <1>9
      <3> QED BY <2>2, <3>2, <3>3, <3>7, <3>8
    <2> QED BY <2>1, <2>2, <1>1, <1>2
  <1>13. OnceInv'
    BY <1>1 DEF OnceInv, IdOf
  <1>14. ASSUME NEW x \in Commands, KnownCommand(x), NEW d \in Clients, MadeBy(x, d)
         PROVE  IsOf(x, d) /\ x.kv_cmd = CommandOf(d, x.id)'
    <2>1. x.id \in Nat
      BY DEF Commands
    <2>2. x.id < Len(request_data[d])
      BY <1>14 DEF KnownCommand, MadeBy, IsOf
    <2> QED BY <2>1, <2>2, <1>8, <1>14 DEF MadeBy
  <1>15. MadeInv'
    <2>1. ASSUME NEW x \in proposed PROVE \E d \in Clients : MadeBy(x, d)'
      <3>1. x \in Commands /\ KnownCommand(x)
        BY DEF ClusterInv, ServerTypeOK, MessageInv
      <3>2. PICK d \in Clients : MadeBy(x, d)
        BY DEF MadeInv
      <3> QED BY <3>1, <3>2, <1>9, <1>14 DEF MadeBy
    <2>2. ASSUME NEW k \in 1 .. Len(log) PROVE \E d \in Clients : MadeBy(log[k], d)'
      <3>1. log[k] \in Commands /\ KnownCommand(log[k])
        BY DEF ClusterInv, ServerTypeOK, MessageInv
      <3>2. PICK d \in Clients : MadeBy(log[k], d)
        BY DEF MadeInv
      <3>3. \A x : x = log[k] => x.kv_cmd = CommandOf(d, x.id)'
        BY <3>1, <3>2, <1>14
      <3>4. log'[k] = log[k] /\ IsOf(log[k], d)'
        BY <3>2, <1>1, <1>9 DEF MadeBy
      <3> QED BY <3>3, <3>4 DEF MadeBy
    <2> QED BY <2>1, <2>2, <1>1 DEF MadeInv
  <1>16. ASSUME NEW d \in Clients, NEW i \in 1 .. Len(request_data'[d]),
                request_data'[d][i].answered
         PROVE  i \in 1 .. Len(request_data[d]) /\ request_data[d][i].answered
    <2>1. CASE d = c
      <3>1. i \in 1 .. n \/ i = n + 1
        BY <2>1, <1>2, <1>3
      <3> QED BY <2>1, <3>1, <1>3, <1>5, <1>16 DEF n
    <2>2. CASE d # c
      BY <2>2, <1>3, <1>16
    <2> QED BY <2>1, <2>2
  <1>17. ResponseInv'
    <2> SUFFICES ASSUME NEW d \in Clients
                 PROVE
          /\ \A i \in 1 .. Len(to_client'[d]) : to_client'[d][i] # StartSignal =>
               /\ \E k \in 1 .. Applied(server_id[d])' : Answers(to_client[d][i], d, k)'
               /\ ~request_data'[d][to_client'[d][i].id + 1].answered
               /\ \A j \in 1 .. Len(to_client'[d]) :
                      /\ to_client'[d][j] # StartSignal
                      /\ to_client'[d][j].id = to_client'[d][i].id
                      => j = i
          /\ \A i \in 1 .. Len(request_data'[d]) : request_data'[d][i].answered =>
               \E k \in 1 .. Applied(server_id[d])' :
                   IsOf(log[k], d)' /\ log'[k].id = i - 1
      BY DEF ResponseInv
    <2>1. ASSUME NEW i \in 1 .. Len(to_client[d]), to_client[d][i] # StartSignal
          PROVE  /\ \E k \in 1 .. Applied(server_id[d])' : Answers(to_client[d][i], d, k)'
                 /\ ~request_data'[d][to_client[d][i].id + 1].answered
      <3>1. PICK k \in 1 .. Applied(server_id[d]) : Answers(to_client[d][i], d, k)
        BY <2>1 DEF ResponseInv
      <3>2. \A x : x = to_client[d][i] => Answers(x, d, k)'
        BY <3>1, <1>9
      <3>3. to_client'[d] = to_client[d]
        BY <1>1
      <3>4. ~request_data[d][to_client[d][i].id + 1].answered
        BY <2>1 DEF ResponseInv
      <3>5. to_client[d][i].id + 1 \in 1 .. Len(request_data[d])
        <4>1. to_client[d][i] \in ServerMessages
          BY DEF ClusterInv, LinkTypeOK
        <4>2. to_client[d][i].id \in Nat
          BY <2>1, <4>1 DEF ServerMessages
        <4>3. to_client[d][i].id < Len(request_data[d])
          BY <2>1 DEF ClusterInv, MessageInv
        <4> QED BY SMTT(30), <4>2, <4>3, <1>2
      <3> QED BY <3>1, <3>2, <3>3, <3>4, <3>5, <1>7, <1>10
    <2>2. ASSUME NEW i \in 1 .. Len(request_data'[d]), request_data'[d][i].answered
          PROVE  \E k \in 1 .. Applied(server_id[d])' :
                     IsOf(log[k], d)' /\ log'[k].id = i - 1
      <3>1. PICK k \in 1 .. Applied(server_id[d]) : IsOf(log[k], d) /\ log[k].id = i - 1
        BY <2>2, <1>16 DEF ResponseInv
      <3> QED BY <3>1, <1>1, <1>9, <1>10
    <2> QED BY ZenonT(40), <2>1, <2>2, <1>1 DEF ResponseInv
  <1>18. ResultInv'
    BY <1>1, <1>9 DEF ResultInv
  <1>19. ResponsesCountedOnce'
    <2> SUFFICES ASSUME NEW d \in Clients
                 PROVE  response_count'[d] =
                          Cardinality({i \in DOMAIN request_data'[d] :
                                           request_data'[d][i].answered})
      BY DEF ResponsesCountedOnce
    <2>1. {i \in DOMAIN request_data'[d] : request_data'[d][i].answered} =
              {i \in DOMAIN request_data[d] : request_data[d][i].answered}
      <3>1. DOMAIN request_data'[d] = 1 .. Len(request_data'[d])
        BY <1>2, <1>3
      <3> QED BY <3>1, <1>2, <1>7, <1>16
    <2> QED BY <2>1, <1>1 DEF ResponsesCountedOnce
  <1> QED BY <1>12, <1>13, <1>15, <1>17, <1>18, <1>19

------------------------------------------------------------------------------
LEMMA AnswerStep ==
    RegInv /\ ClusterInv /\ AnswerInv /\ [Next]_vars => AnswerInv'
  <1> SUFFICES ASSUME RegInv, ClusterInv, AnswerInv, [Next]_vars PROVE AnswerInv'
    OBVIOUS
  <1>1. CASE RegistrationStep /\ UNCHANGED <<serverVars, clientVars>>
    BY <1>1, RegistrationFrame, QuietRegistration, QuietAnswers
  <1>2. CASE Break /\ UNCHANGED <<serverVars, clientVars>>
    BY <1>2, QuietBreak, QuietAnswers
  <1>3. CASE TakeLeadership /\ UNCHANGED clientVars
    BY <1>3, QuietElsewhere, QuietAnswers DEF TakeLeadership, netVars
  <1>4. ASSUME NEW cmd \in proposed, Decide(cmd), UNCHANGED clientVars
        PROVE  AnswerInv'
    BY <1>4, DecideAnswers
  <1>5. ASSUME NEW s \in Servers, ServerStep(s), UNCHANGED clientVars
        PROVE  AnswerInv'
    <2>1. CASE establish_initial_leader(s)
      BY <1>5, <2>1, QuietSignals, QuietAnswers DEF establish_initial_leader
    <2>2. ASSUME NEW t \in Servers, handle_start_signal(s, t)
          PROVE  AnswerInv'
      BY <1>5, <2>2, QuietSignals, QuietAnswers DEF handle_start_signal
    <2>3. ASSUME NEW t \in Servers, send_outgoing_msgs(s, t)
          PROVE  AnswerInv'
      BY <1>5, <2>3, QuietElsewhere, QuietAnswers
      DEF send_outgoing_msgs, serverVars, libVars
    <2>4. CASE handle_omnipaxos_message(s)
      BY <1>5, <2>4, QuietRead, QuietAnswers
    <2>5. CASE update_database_and_respond(s)
      BY <1>5, <2>5, ExecuteAnswers
    <2>6. ASSUME NEW c \in Clients, handle_client_message(s, c)
          PROVE  AnswerInv'
      BY <1>5, <2>6, AppendAnswers
    <2> QED BY <1>5, <2>1, <2>2, <2>3, <2>4, <2>5, <2>6 DEF ServerStep
  <1>6. ASSUME NEW c \in Clients, ClientStep(c), UNCHANGED serverVars
        PROVE  AnswerInv'
    <2>1. CASE send_request(c)
      BY <1>6, <2>1, SendAnswers
    <2>2. CASE handle_server_message(c) /\ Head(to_client[c]) # StartSignal
      BY <1>6, <2>2, RecordAnswers
    <2>3. CASE \/ wait_for_start_signal(c)
               \/ \E is_write \in BOOLEAN : request_tick(c, is_write)
               \/ next_interval_ends(c)
               \/ handle_server_message(c) /\ Head(to_client[c]) = StartSignal
      BY <1>6, <2>3, QuietClient, QuietAnswers
    <2> QED BY <1>6, <2>1, <2>2, <2>3 DEF ClientStep
  <1>7. CASE UNCHANGED vars
    BY <1>7, QuietElsewhere, QuietAnswers DEF vars, netVars, serverVars, libVars
  <1> QED BY <1>1, <1>2, <1>3, <1>4, <1>5, <1>6, <1>7 DEF Next

\* The inductive invariant of the responses, on top of those of the
\* registration and of the cluster: ids order the requests of a client on
\* their way, and no request is in two places.
THEOREM AnswerInvariant == Spec => []AnswerInv
  BY AnswerInit, AnswerStep, RegistrationInvariant, ClusterInvariant, PTL DEF Spec

\* ClientData::new_response counts every request at most once: no command is
\* decided or answered twice, whatever connections break and although client
\* ids and request ids are the same at different servers.
THEOREM CountedOnce == Spec => []ResponsesCountedOnce
  <1>1. AnswerInv => ResponsesCountedOnce
    BY DEF AnswerInv
  <1> QED BY <1>1, AnswerInvariant, PTL

------------------------------------------------------------------------------
(* The store is an atomic one: every step is a step of LinearizableKV that  *)
(* leaves alone what it should.                                             *)

\* The refinement mapping of AtomicStore.
AbsStore == states[Len(states)]

AbsCalled ==
    UNION {{[id |-> <<server_id[c], conn_id[c], i - 1>>,
             op |-> Operation(IF request_data[c][i].write
                              THEN Put(i - 1, i - 1) ELSE Get(i - 1))] :
                i \in DOMAIN request_data[c]} : c \in Clients}

AbsDone ==
    {[id |-> IdOf(log[i]),
      body |-> Result(response_to(states[i], log[i].kv_cmd, 0))] : i \in DOMAIN log}

AbsAnswered ==
    {[id |-> <<server_id[r.client], conn_id[r.client], r.response.id>>,
      body |-> Result(r.response)] : r \in results}

\* The call that the client's i-th request stands for.
CallOf(c, i) ==
    [id |-> <<server_id[c], conn_id[c], i - 1>>,
     op |-> Operation(IF request_data[c][i].write
                      THEN Put(i - 1, i - 1) ELSE Get(i - 1))]

LEMMA CalledByRequests ==
    \A x : x \in AbsCalled <=>
        \E c \in Clients : \E i \in DOMAIN request_data[c] : x = CallOf(c, i)
  BY DEF AbsCalled, CallOf

\* The database and its responses are those of the atomic store.
LEMMA SameStore ==
    ASSUME NEW db, NEW k, NEW v, NEW id, NEW cmd \in {Put(k, v), Get(k)}
    PROVE  /\ AtomicStore!apply_op(db, Operation(cmd)) = handle_command(db, cmd)
           /\ AtomicStore!reply_to(db, Operation(cmd)) = Result(response_to(db, cmd, id))
  <1>1. CASE cmd = Put(k, v)
    <2>1. /\ cmd.type = "Put" /\ cmd.key = k /\ cmd.value = v
          /\ Operation(cmd) = [type |-> "write", key |-> k, value |-> v]
      BY <1>1 DEF Put, Operation
    <2>2. /\ handle_command(db, cmd) = [db EXCEPT ![k] = v]
          /\ Result(response_to(db, cmd, id)) = [type |-> "write_ok"]
      BY <2>1 DEF handle_command, response_to, Result
    <2> QED BY <2>1, <2>2 DEF AtomicStore!apply_op, AtomicStore!reply_to, AtomicStore!Ok
  <1>2. CASE cmd = Get(k)
    <2>1. /\ cmd.type = "Get" /\ cmd.key = k
          /\ Operation(cmd) = [type |-> "read", key |-> k]
      BY <1>2 DEF Get, Operation
    <2>2. handle_command(db, cmd) = db
      BY <2>1 DEF handle_command
    <2>3. Result(response_to(db, cmd, id)) =
              IF db[k] = None THEN [type |-> "error", code |-> 20]
                              ELSE [type |-> "read_ok", value |-> db[k]]
      BY <2>1 DEF response_to, Result
    <2>4. AtomicStore!apply_op(db, Operation(cmd)) = db
      BY <2>1 DEF AtomicStore!apply_op
    <2>5. AtomicStore!reply_to(db, Operation(cmd)) =
              IF db[k] = None THEN [type |-> "error", code |-> 20]
                              ELSE [type |-> "read_ok", value |-> db[k]]
      BY <2>1 DEF AtomicStore!reply_to, AtomicStore!Error
    <2> QED BY <2>2, <2>3, <2>4, <2>5
  <1> QED BY <1>1, <1>2

\* The result of an operation does not depend on the id in its response.
LEMMA ResultOfAnyId ==
    ASSUME NEW db, NEW cmd, NEW i, NEW j
    PROVE  Result(response_to(db, cmd, i)) = Result(response_to(db, cmd, j))
  BY DEF Result, response_to

LEMMA RefineInit == Init => AtomicStore!Init
  <1> SUFFICES ASSUME Init PROVE AtomicStore!Init
    OBVIOUS
  <1> USE DEF Init, NetInit, ServerInit, ClientInit
  <1>1. AbsStore = AtomicStore!EmptyStore
    BY DEF AbsStore, EmptyDatabase, AtomicStore!EmptyStore
  <1>2. AbsDone = {} /\ AbsAnswered = {}
    BY DEF AbsDone, AbsAnswered
  <1>3. AbsCalled = {}
    BY DEF AbsCalled
  <1> QED BY <1>1, <1>2, <1>3
          DEF AtomicStore!Init, AbsStore, AbsCalled, AbsDone, AbsAnswered

\* A step that the atomic store does not see: also a client that is given its
\* id, since it has made no request before.
LEMMA RefineStutter ==
    ASSUME ClusterInv, AnswerInv, UNCHANGED <<states, log, request_data, results>>,
           \A c \in Clients : conn_id[c] # 0 => conn_id'[c] = conn_id[c]
    PROVE  UNCHANGED AtomicStore!vars
  <1>1. AbsStore' = AbsStore /\ AbsDone' = AbsDone
    BY DEF AbsStore, AbsDone, IdOf
  <1>2. ASSUME NEW c \in Clients, NEW i \in DOMAIN request_data[c]
        PROVE  conn_id'[c] = conn_id[c]
    <2>1. request_data[c] # <<>>
      BY <1>2
    <2>2. client_stage[c] # "waiting"
      BY <2>1 DEF ClusterInv, RequestInv
    <2>3. conn_id[c] # 0
      BY <2>2 DEF ClusterInv, StartInv
    <2> QED BY <2>3
  <1>3. AbsCalled' = AbsCalled
    <2>1. \A c \in Clients : \A i \in DOMAIN request_data[c] :
              CallOf(c, i)' = CallOf(c, i)
      BY <1>2 DEF CallOf
    <2>2. \A x : x \in AbsCalled' <=>
              \E c \in Clients : \E i \in DOMAIN request_data'[c] : x = CallOf(c, i)'
      BY DEF AbsCalled, CallOf
    <2>3. \A x : x \in AbsCalled' <=> x \in AbsCalled
      BY <2>1, <2>2, CalledByRequests
    <2> QED BY <2>3
  <1>4. \A r \in results : conn_id'[r.client] = conn_id[r.client]
    <2> SUFFICES ASSUME NEW r \in results PROVE conn_id'[r.client] = conn_id[r.client]
      OBVIOUS
    <2>1. PICK k \in 1 .. Len(log) : Answers(r.response, r.client, k)
      BY DEF AnswerInv, ResultInv
    <2>2. log[k] \in Commands /\ r.client \in Clients
      BY DEF ClusterInv, ServerTypeOK, ClientTypeOK
    <2>3. conn_id[r.client] # 0
      BY <2>1, <2>2, ClientIdsType DEF Answers, IsOf, Commands
    <2> QED BY <2>2, <2>3
  <1>5. AbsAnswered' = AbsAnswered
    BY <1>4 DEF AbsAnswered
  <1> QED BY <1>1, <1>3, <1>5
          DEF AtomicStore!vars, AbsStore, AbsCalled, AbsDone, AbsAnswered

\* A recorded request is a call.
LEMMA RefineSend ==
    ASSUME RegInv, ClusterInv, UNCHANGED serverVars, NEW c \in Clients, send_request(c)
    PROVE  AtomicStore!Next
  <1> DEFINE n == Len(request_data[c])
             r == [write |-> sending[c] = "write", answered |-> FALSE]
             kv_cmd == IF r.write THEN Put(n, n) ELSE Get(n)
             id == <<server_id[c], conn_id[c], n>>
             op == Operation(kv_cmd)
             call == [id |-> id, op |-> op]
  <1>1. /\ client_stage[c] = "running" /\ sending[c] # NotSending
        /\ request_data' = [request_data EXCEPT ![c] = Append(@, r)]
        /\ UNCHANGED <<conn_id, results, log, states>>
    BY DEF send_request, registrationVars, serverVars, libVars
  <1>2. /\ request_data \in [Clients -> Seq(RequestData)]
        /\ \A d \in Clients : DOMAIN request_data[d] = 1 .. Len(request_data[d])
        /\ n \in Nat /\ n < MaxRequests
    BY <1>1 DEF ClusterInv, ClientTypeOK, RequestInv
  <1>3. n \in Keys /\ n \in Values
    <2>1. MaxRequests \in Nat /\ 0 .. MaxRequests - 1 \subseteq Keys \cap Values
      BY ClientAssumption DEF ClientAssumption
    <2>2. n \in 0 .. MaxRequests - 1
      BY <1>2, <2>1
    <2> QED BY <2>1, <2>2
  <1>4. conn_id[c] # 0 /\ conn_id[c] \in ClientIds
    <2>1. conn_id[c] # 0
      BY <1>1 DEF ClusterInv, StartInv
    <2> QED BY <2>1 DEF RegInv, RegistrationTypeOK
  <1>5. id \in RequestIds
    <2>1. server_id[c] \in Servers
      BY NetworkAssumption DEF NetworkAssumption
    <2> QED BY <2>1, <1>3, <1>4 DEF RequestIds
  <1>6. op \in AtomicStore!KVOp
    <2> HIDE DEF r, n
    <2>1. CASE r.write
      BY <2>1, <1>3 DEF Operation, Put, AtomicStore!KVOp, AtomicStore!OpsOver
    <2>2. CASE ~r.write
      BY <2>2, <1>3 DEF Operation, Get, AtomicStore!KVOp, AtomicStore!OpsOver
    <2> QED BY <2>1, <2>2
  <1>7. /\ \A d \in Clients \ {c} : request_data'[d] = request_data[d]
        /\ DOMAIN request_data'[c] = 1 .. (n + 1)
        /\ request_data'[c][n + 1] = r
        /\ \A i \in 1 .. n : request_data'[c][i] = request_data[c][i]
    <2>1. r \in RequestData
      BY DEF RequestData
    <2>2. /\ request_data'[c] = Append(request_data[c], r)
          /\ \A d \in Clients \ {c} : request_data'[d] = request_data[d]
      BY <1>1, <1>2
    <2> HIDE DEF r
    <2> QED BY <2>1, <2>2, <1>2
  <1> HIDE DEF r
  <1>8. \A x \in AbsCalled : x.id # id
    <2> SUFFICES ASSUME NEW d \in Clients, NEW i \in DOMAIN request_data[d]
                 PROVE  CallOf(d, i).id # id
      BY CalledByRequests
    <2>1. CASE d = c
      <3>1. i - 1 # n
        BY <2>1, <1>2
      <3> QED BY <3>1 DEF CallOf
    <2>2. CASE d # c
      <3>1. server_id[d] # server_id[c] \/ conn_id[d] # conn_id[c]
        BY <2>2, <1>4 DEF RegInv, IdInv
      <3> QED BY <3>1 DEF CallOf
    <2> QED BY <2>1, <2>2
  <1>9. AbsCalled' = AbsCalled \cup {call}
    <2>1. \A x : x \in AbsCalled' <=>
              \E d \in Clients : \E i \in DOMAIN request_data'[d] : x = CallOf(d, i)'
      BY DEF AbsCalled, CallOf
    <2>2. \A d \in Clients : \A i \in DOMAIN request_data[d] :
              i \in DOMAIN request_data'[d] /\ CallOf(d, i)' = CallOf(d, i)
      <3> SUFFICES ASSUME NEW d \in Clients, NEW i \in DOMAIN request_data[d]
                   PROVE  i \in DOMAIN request_data'[d] /\ CallOf(d, i)' = CallOf(d, i)
        OBVIOUS
      <3>1. i \in DOMAIN request_data'[d] /\ request_data'[d][i] = request_data[d][i]
        BY <1>2, <1>7
      <3> QED BY <3>1, <1>1 DEF CallOf
    <2>3. \A i : i = n + 1 => i \in DOMAIN request_data'[c] /\ CallOf(c, i)' = call
      <3>1. (n + 1) - 1 = n /\ n + 1 \in 1 .. (n + 1)
        BY <1>2
      <3> HIDE DEF n
      <3> QED BY <3>1, <1>1, <1>7 DEF CallOf
    <2>4. \A d \in Clients : \A i \in DOMAIN request_data'[d] :
              i \in DOMAIN request_data[d] \/ (d = c /\ i = n + 1)
      BY <1>2, <1>7
    <2> HIDE DEF call
    <2>5. ASSUME NEW x \in AbsCalled' PROVE x \in AbsCalled \cup {call}
      <3>1. PICK d \in Clients : \E i \in DOMAIN request_data'[d] : x = CallOf(d, i)'
        BY <2>1
      <3>2. PICK i \in DOMAIN request_data'[d] : x = CallOf(d, i)'
        BY <3>1
      <3> QED BY <3>2, <2>2, <2>3, <2>4, CalledByRequests
    <2>6. ASSUME NEW x \in AbsCalled PROVE x \in AbsCalled'
      BY <2>1, <2>2, CalledByRequests
    <2>7. call \in AbsCalled'
      BY <2>1, <2>3
    <2> QED BY <2>5, <2>6, <2>7
  <1>10. AbsStore' = AbsStore /\ AbsDone' = AbsDone /\ AbsAnswered' = AbsAnswered
    BY <1>1 DEF AbsStore, AbsDone, AbsAnswered, IdOf
  <1> HIDE DEF id, op
  <1>11. PICK x \in RequestIds, y \in AtomicStore!KVOp : x = id /\ y = op
    BY <1>5, <1>6
  <1>12. AtomicStore!Call(x, y)
    BY <1>8, <1>9, <1>10, <1>11
       DEF AtomicStore!Call, AbsStore, AbsCalled, AbsDone, AbsAnswered
  <1> QED BY <1>12 DEF AtomicStore!Next

\* A decision is the moment a request takes effect.
LEMMA RefineDecide ==
    ASSUME ClusterInv, AnswerInv, NEW cmd \in proposed, Decide(cmd),
           UNCHANGED clientVars
    PROVE  AtomicStore!Next
  <1> DEFINE len == Len(log)
             db == states[Len(states)]
  <1>1. /\ log' = Append(log, cmd)
        /\ states' = Append(states, handle_command(db, cmd.kv_cmd))
        /\ UNCHANGED <<conn_id, request_data, results>>
    BY DEF Decide, netVars, registrationVars, clientVars
  <1>2. /\ log \in Seq(Commands) /\ states \in Seq(Databases) /\ len \in Nat
        /\ Len(states) = len + 1 /\ cmd \in Commands
    BY DEF ClusterInv, ServerTypeOK, ReplicaInv
  <1>3. /\ DOMAIN log = 1 .. len
        /\ DOMAIN log' = 1 .. (len + 1)
        /\ \A i \in 1 .. len : log'[i] = log[i] /\ states'[i] = states[i]
        /\ log'[len + 1] = cmd
        /\ states'[len + 1] = db
        /\ AbsStore = db
        /\ AbsStore' = handle_command(db, cmd.kv_cmd)
    BY <1>1, <1>2 DEF AbsStore
  <1> DEFINE call == [id |-> IdOf(cmd), op |-> Operation(cmd.kv_cmd)]
             result == [id |-> IdOf(cmd), body |-> Result(response_to(db, cmd.kv_cmd, 0))]
  <1>4. PICK c \in Clients : MadeBy(cmd, c)
    BY DEF AnswerInv, MadeInv
  <1>5. cmd.kv_cmd \in {Put(cmd.id, cmd.id), Get(cmd.id)}
    BY <1>4 DEF MadeBy, CommandOf
  <1>6. /\ AtomicStore!apply_op(db, Operation(cmd.kv_cmd)) = handle_command(db, cmd.kv_cmd)
        /\ AtomicStore!reply_to(db, Operation(cmd.kv_cmd)) =
               Result(response_to(db, cmd.kv_cmd, 0))
    BY <1>5, SameStore
  <1>7. call \in AbsCalled
    <2> DEFINE i == cmd.id + 1
    <2>1. cmd.id \in Nat
      BY <1>2 DEF Commands
    <2>2. cmd.id < Len(request_data[c])
      BY <1>4 DEF ClusterInv, MessageInv, KnownCommand, MadeBy, IsOf
    <2>3. request_data[c] \in Seq(RequestData)
      BY DEF ClusterInv, ClientTypeOK
    <2>4. i \in DOMAIN request_data[c] /\ i - 1 = cmd.id
      BY <2>1, <2>2, <2>3
    <2>5. cmd.kv_cmd = IF request_data[c][i].write THEN Put(cmd.id, cmd.id) ELSE Get(cmd.id)
      BY <1>4 DEF MadeBy, CommandOf
    <2> HIDE DEF i
    <2>6. CallOf(c, i) = call
      BY <1>4, <2>4, <2>5 DEF CallOf, MadeBy, IsOf, IdOf
    <2> QED BY <2>4, <2>6, CalledByRequests
  <1>8. \A d \in AbsDone : d.id # IdOf(cmd)
    BY <1>3 DEF AbsDone, AnswerInv, OnceInv
  <1> HIDE DEF db, len
  <1>9. AbsDone' = AbsDone \cup {result}
    <2> DEFINE Done(i) == [id |-> IdOf(log[i]),
                           body |-> Result(response_to(states[i], log[i].kv_cmd, 0))]
               DoneNext(i) == [id |-> IdOf(log'[i]),
                               body |-> Result(response_to(states'[i], log'[i].kv_cmd, 0))]
    <2>1. \A i \in 1 .. len : DoneNext(i) = Done(i)
      BY <1>3
    <2>2. DoneNext(len + 1) = result
      BY <1>3
    <2>3. AbsDone = {Done(i) : i \in 1 .. len}
      BY <1>3 DEF AbsDone
    <2>4. AbsDone' = {DoneNext(i) : i \in 1 .. (len + 1)}
      BY <1>3 DEF AbsDone, IdOf
    <2>5. 1 .. (len + 1) = (1 .. len) \cup {len + 1}
      BY <1>2
    <2> HIDE DEF Done, DoneNext, result
    <2> QED BY <2>1, <2>2, <2>3, <2>4, <2>5
  <1>10. AbsCalled' = AbsCalled /\ AbsAnswered' = AbsAnswered
    BY <1>1 DEF AbsCalled, AbsAnswered
  <1>11. AtomicStore!TakeEffect(call)
    <2>1. call.id = IdOf(cmd) /\ call.op = Operation(cmd.kv_cmd)
      OBVIOUS
    <2>2. /\ AbsStore' = AtomicStore!apply_op(AbsStore, call.op)
          /\ AbsDone' = AbsDone \cup {[id |-> call.id,
                                       body |-> AtomicStore!reply_to(AbsStore, call.op)]}
      BY <2>1, <1>3, <1>6, <1>9
    <2>3. \A d \in AbsDone : d.id # call.id
      BY <2>1, <1>8
    <2> HIDE DEF call
    <2> QED BY <2>2, <2>3, <1>10
            DEF AtomicStore!TakeEffect, AbsStore, AbsCalled, AbsDone, AbsAnswered
  <1> HIDE DEF call
  <1> QED BY <1>7, <1>11 DEF AtomicStore!Next, AbsCalled

\* A recorded response is an answer.
LEMMA RefineRecord ==
    ASSUME ClusterInv, AnswerInv, UNCHANGED serverVars, NEW c \in Clients,
           handle_server_message(c), Head(to_client[c]) # StartSignal
    PROVE  AtomicStore!Next
  <1> DEFINE msg == Head(to_client[c])
             n == msg.id + 1
             rec == [client |-> c, response |-> msg]
             answer == [id |-> <<server_id[c], conn_id[c], msg.id>>, body |-> Result(msg)]
  <1>1. to_client[c] # <<>> /\ UNCHANGED <<conn_id, log, states>>
    BY DEF handle_server_message, registrationVars, serverVars, libVars
  <1>2. 1 \in 1 .. Len(to_client[c]) /\ msg = to_client[c][1] /\ msg \in ServerMessages
    BY <1>1 DEF ClusterInv, LinkTypeOK
  <1>3. /\ request_data \in [Clients -> Seq(RequestData)]
        /\ request_data[c] \in Seq(RequestData)
    BY DEF ClusterInv, ClientTypeOK
  <1>4. msg.id \in Nat /\ n \in DOMAIN request_data[c]
    <2>1. msg.id \in Nat
      BY <1>2 DEF ServerMessages
    <2>2. msg.id < Len(request_data[c])
      BY <1>2 DEF ClusterInv, MessageInv
    <2> QED BY <2>1, <2>2, <1>3
  <1>5. /\ request_data' = [request_data EXCEPT ![c][n].answered = TRUE]
        /\ results' = results \cup {rec}
    BY <1>4 DEF handle_server_message
  <1>6. PICK m \in 1 .. Applied(server_id[c]) : Answers(msg, c, m)
    BY <1>2 DEF AnswerInv, ResponseInv
  <1>7. m \in DOMAIN log /\ m \in 1 .. Len(log)
    <2>1. server_id[c] \in Servers
      BY NetworkAssumption DEF NetworkAssumption
    <2>2. log \in Seq(Commands)
      BY DEF ClusterInv, ServerTypeOK
    <2> QED BY <2>1, <2>2, AppliedRange
  <1> HIDE DEF msg
  <1>8. answer \in AbsDone
    <2>1. msg.id = log[m].id
      BY <1>6, <1>7, AnswerId
    <2>2. IdOf(log[m]) = <<server_id[c], conn_id[c], msg.id>>
      BY <1>6, <2>1 DEF Answers, IsOf, IdOf
    <2>3. Result(msg) = Result(response_to(states[m], log[m].kv_cmd, 0))
      BY <1>6, ResultOfAnyId DEF Answers
    <2> QED BY <1>7, <2>2, <2>3 DEF AbsDone
  <1>9. AbsAnswered' = AbsAnswered \cup {answer}
    <2>1. rec.client = c /\ rec.response = msg
      OBVIOUS
    <2> HIDE DEF rec
    <2> QED BY <2>1, <1>1, <1>5 DEF AbsAnswered
  <1>10. AbsCalled' = AbsCalled
    <2>1. /\ \A d \in Clients : DOMAIN request_data'[d] = DOMAIN request_data[d]
          /\ \A d \in Clients : \A i \in DOMAIN request_data[d] :
                 request_data'[d][i].write = request_data[d][i].write
      <3> DEFINE r == [request_data[c][n] EXCEPT !.answered = TRUE]
                 q == [request_data[c] EXCEPT ![n] = r]
      <3>1. request_data[c][n] \in RequestData
        BY <1>3, <1>4
      <3>2. r.write = request_data[c][n].write
        BY <3>1 DEF RequestData
      <3>3. request_data'[c] = q /\ \A d \in Clients \ {c} : request_data'[d] = request_data[d]
        BY <1>3, <1>5
      <3> HIDE DEF r, n
      <3>4. /\ DOMAIN q = DOMAIN request_data[c]
            /\ \A i \in DOMAIN request_data[c] :
                   q[i] = IF i = n THEN r ELSE request_data[c][i]
        BY <1>4
      <3> HIDE DEF q
      <3> QED BY <3>2, <3>3, <3>4
    <2>2. \A d \in Clients : \A i \in DOMAIN request_data[d] : CallOf(d, i)' = CallOf(d, i)
      BY <2>1, <1>1 DEF CallOf
    <2>3. \A x : x \in AbsCalled' <=>
              \E d \in Clients : \E i \in DOMAIN request_data'[d] : x = CallOf(d, i)'
      BY DEF AbsCalled, CallOf
    <2>4. \A x : x \in AbsCalled' <=> x \in AbsCalled
      BY <2>1, <2>2, <2>3, CalledByRequests
    <2> QED BY <2>4
  <1>11. AbsStore' = AbsStore /\ AbsDone' = AbsDone
    BY <1>1 DEF AbsStore, AbsDone, IdOf
  <1> HIDE DEF answer
  <1>12. PICK x \in AbsDone : x = answer
    BY <1>8
  <1>13. AtomicStore!Answer(x)
    BY <1>9, <1>10, <1>11, <1>12
       DEF AtomicStore!Answer, AbsStore, AbsCalled, AbsDone, AbsAnswered
  <1> QED BY <1>13 DEF AtomicStore!Next, AbsDone

LEMMA RefineQuiet ==
    ASSUME ClusterInv, AnswerInv, QuietFrame
    PROVE  UNCHANGED AtomicStore!vars
  BY RefineStutter DEF QuietFrame

LEMMA RefineNext ==
    RegInv /\ ClusterInv /\ AnswerInv /\ [Next]_vars
        => [UNCHANGED AtomicStore!vars \/ AtomicStore!Next]_vars
  <1> SUFFICES ASSUME RegInv, ClusterInv, AnswerInv, [Next]_vars
               PROVE  UNCHANGED AtomicStore!vars \/ AtomicStore!Next
    OBVIOUS
  <1>1. CASE RegistrationStep /\ UNCHANGED <<serverVars, clientVars>>
    BY <1>1, RegistrationFrame, QuietRegistration, RefineQuiet
  <1>2. CASE Break /\ UNCHANGED <<serverVars, clientVars>>
    BY <1>2, QuietBreak, RefineQuiet
  <1>3. CASE TakeLeadership /\ UNCHANGED clientVars
    BY <1>3, QuietElsewhere, RefineQuiet DEF TakeLeadership, netVars
  <1>4. ASSUME NEW cmd \in proposed, Decide(cmd), UNCHANGED clientVars
        PROVE  AtomicStore!Next
    BY <1>4, RefineDecide
  <1>5. ASSUME NEW s \in Servers, ServerStep(s), UNCHANGED clientVars
        PROVE  UNCHANGED AtomicStore!vars
    <2>1. UNCHANGED <<states, log, request_data, results, conn_id>>
      BY <1>5 DEF ServerStep, establish_initial_leader, handle_start_signal,
                  send_outgoing_msgs, handle_omnipaxos_message,
                  update_database_and_respond, handle_client_message,
                  netVars, registrationVars, serverVars, libVars, clientVars
    <2> QED BY <2>1, RefineStutter
  <1>6. ASSUME NEW c \in Clients, ClientStep(c), UNCHANGED serverVars
        PROVE  UNCHANGED AtomicStore!vars \/ AtomicStore!Next
    <2>1. CASE send_request(c)
      BY <1>6, <2>1, RefineSend
    <2>2. CASE handle_server_message(c) /\ Head(to_client[c]) # StartSignal
      BY <1>6, <2>2, RefineRecord
    <2>3. CASE \/ wait_for_start_signal(c)
               \/ \E is_write \in BOOLEAN : request_tick(c, is_write)
               \/ next_interval_ends(c)
               \/ handle_server_message(c) /\ Head(to_client[c]) = StartSignal
      BY <1>6, <2>3, QuietClient, RefineQuiet
    <2> QED BY <1>6, <2>1, <2>2, <2>3 DEF ClientStep
  <1>7. CASE UNCHANGED vars
    BY <1>7, QuietElsewhere, RefineQuiet DEF vars, netVars, serverVars, libVars
  <1> QED BY <1>1, <1>2, <1>3, <1>4, <1>5, <1>6, <1>7 DEF Next

\* The Puts and Gets of all clients are linearizable: handle_client_messages
\* through handle_decided_entries to new_response implement one atomic store,
\* also across broken connections and clients that end with requests under
\* way, as long as OmniPaxos decides what is appended at most once.
THEOREM StoreIsLinearizable == Spec => Linearizable
  BY RefineInit, RefineNext, RegistrationInvariant, ClusterInvariant,
     AnswerInvariant, PTL
  DEF Spec, Linearizable
==============================================================================
