---------------------------- MODULE KVClusterProofs ----------------------------
(***************************************************************************)
(* The KV store for any number of servers, clients and requests, whatever  *)
(* connections break: that when Network::new returns every client is       *)
(* registered and nobody is left behind, its types, that nothing starts    *)
(* before the initial leader is in its accept phase, that the databases    *)
(* agree, and that no client is sent a message it would panic on.          *)
(***************************************************************************)
EXTENDS KVCluster, FiniteSetTheorems, SequenceTheorems, TLAPS

------------------------------------------------------------------------------
(* How servers and clients find each other.                                 *)

ClientsOf(s) == {c \in Clients : server_id[c] = s}

Registered(s) == {c \in ClientsOf(s) : conn_id[c] # 0}

ToPeer(t) == [type |-> "ToPeer", peer_id |-> t]
ToClient(c, id) == [type |-> "ToClient", client |-> c, client_id |-> id]

------------------------------------------------------------------------------
(* The parts of the inductive invariant.                                    *)

\* Who is in the middle of a handshake is connected and not yet registered.
HandshakeOK(s, who) ==
    /\ <<who, s>> \in connected
    /\ who \in Clients => server_id[who] = s /\ conn_id[who] = 0
    /\ who \in Servers =>
           /\ who > s
           /\ who \notin peer_connections[s]
           /\ ToPeer(who) \notin connection_source[s]

HandshakeInv == \A s \in Servers : \A who \in handshakes[s] : HandshakeOK(s, who)

\* The ids of a server's clients are 1 .. max_client_id, one each.
IdInv ==
    /\ \A c \in Clients : conn_id[c] # 0 =>
           /\ ClientLink(c) \in connected
           /\ conn_id[c] <= max_client_id[server_id[c]]
    /\ \A c, d \in Clients :
           server_id[c] = server_id[d] /\ conn_id[c] = conn_id[d] /\ conn_id[c] # 0
               => c = d
    /\ \A s \in Servers :
           /\ Cardinality(Registered(s)) = max_client_id[s]
           /\ \A k \in 1 .. max_client_id[s] : \E c \in ClientsOf(s) : conn_id[c] = k

\* A connection that has still to be stored is registered and not stored.
SourceOK(s, n) ==
    /\ n.type = "ToPeer" =>
           /\ n.peer_id # s
           /\ n.peer_id \notin peer_connections[s]
           /\ PeerLink(s, n.peer_id) \in connected
    /\ n.type = "ToClient" =>
           /\ server_id[n.client] = s
           /\ conn_id[n.client] = n.client_id
           /\ client_connections[s][n.client_id] = NoClient

SourceInv == \A s \in Servers : \A n \in connection_source[s] : SourceOK(s, n)

\* A stored connection belongs to the registration it was stored for.
StoredInv ==
    \A s \in Servers :
        /\ \A t \in peer_connections[s] : t # s /\ PeerLink(s, t) \in connected
        /\ \A id \in ClientIds :
               LET c == client_connections[s][id]
               IN  c # NoClient => server_id[c] = s /\ conn_id[c] = id

\* When Network::new has returned, all are registered and none is on the way.
ResolvedInv ==
    \A s \in resolved :
        /\ listener[s] = "aborted"
        /\ handshakes[s] = {}
        /\ connection_source[s] = {}
        /\ \A t \in Peers(s) : PeerLink(s, t) \in connected
        /\ \A c \in ClientsOf(s) : conn_id[c] # 0

RegInv ==
    /\ RegistrationTypeOK
    /\ HandshakeInv
    /\ IdInv
    /\ SourceInv
    /\ StoredInv
    /\ ResolvedInv

------------------------------------------------------------------------------
LEMMA ClientIdsType ==
    Cardinality(Clients) \in Nat /\ ClientIds \subseteq Nat \ {0}
  BY FS_CardinalityType, NetworkAssumption DEF NetworkAssumption, ClientIds

LEMMA ConnIdType == RegistrationTypeOK => \A c \in Clients : conn_id[c] \in Nat
  <1>1. RegistrationTypeOK => \A c \in Clients : conn_id[c] \in ClientIds \cup {0}
    BY DEF RegistrationTypeOK
  <1>2. \A id \in ClientIds \cup {0} : id \in Nat
    BY ClientIdsType
  <1> QED BY <1>1, <1>2

LEMMA RegInit == Init => RegInv
  <1> SUFFICES ASSUME Init PROVE RegInv
    OBVIOUS
  <1> USE DEF Init, NetInit
  <1>1. RegistrationTypeOK
    BY NetworkAssumption DEF RegistrationTypeOK, NetworkAssumption
  <1>2. IdInv
    <2>1. \A s \in Servers : Registered(s) = {}
      BY DEF Registered, ClientsOf
    <2>2. \A s \in Servers : Cardinality(Registered(s)) = 0
      BY <2>1, FS_EmptySet
    <2> QED BY <2>2, NetworkAssumption DEF IdInv, NetworkAssumption
  <1> QED
    BY <1>1, <1>2 DEF RegInv, HandshakeInv, HandshakeOK, SourceInv, SourceOK, StoredInv, ResolvedInv

(***************************************************************************)
(* Steps after the registration: connections are only given up.            *)
(***************************************************************************)
OnlyGivenUp ==
    /\ UNCHANGED registrationVars
    /\ peer_connections' \in [Servers -> SUBSET Servers]
    /\ client_connections' \in [Servers -> [ClientIds -> Clients \cup {NoClient}]]
    /\ \A s \in Servers :
           /\ peer_connections'[s] \subseteq peer_connections[s]
           /\ \A id \in ClientIds :
                  client_connections'[s][id] \in {client_connections[s][id], NoClient}

LEMMA GivingUpStep == RegInv /\ OnlyGivenUp => RegInv'
  <1> SUFFICES ASSUME RegInv, OnlyGivenUp PROVE RegInv'
    OBVIOUS
  <1> USE DEF RegInv, OnlyGivenUp, registrationVars
  <1>1. RegistrationTypeOK'
    BY DEF RegistrationTypeOK
  <1>2. HandshakeInv'
    BY DEF HandshakeInv, HandshakeOK
  <1>3. IdInv'
    <2> USE DEF IdInv
    <2>1. IdInv /\ UNCHANGED <<connected, max_client_id, conn_id>>
      OBVIOUS
    <2>2. \A s \in Servers : Registered(s)' = Registered(s)
      BY <2>1 DEF Registered, ClientsOf
    <2> HIDE DEF RegInv, OnlyGivenUp
    <2> QED BY <2>1, <2>2 DEF ClientsOf, ClientLink
  <1>4. SourceInv'
    <2>1. \A s \in Servers : \A n \in connection_source[s] :
             n.type = "ToClient" => n.client_id \in ClientIds
      BY DEF RegistrationTypeOK, NewConnections
    <2> SUFFICES ASSUME NEW s \in Servers, NEW n \in connection_source'[s]
                 PROVE  SourceOK(s, n)'
      BY DEF SourceInv
    <2> QED BY <2>1 DEF SourceInv, SourceOK, PeerLink
  <1>5. StoredInv'
    BY DEF StoredInv, PeerLink
  <1>6. ResolvedInv'
    BY DEF ResolvedInv, PeerLink, ClientsOf, Peers
  <1> QED BY <1>1, <1>2, <1>3, <1>4, <1>5, <1>6

LEMMA ListenerStep ==
    ASSUME RegInv, NEW s \in Servers, spawn_connection_listener(s)
    PROVE  RegInv'
  <1> USE DEF RegInv, spawn_connection_listener
  <1>1. RegistrationTypeOK'
    BY DEF RegistrationTypeOK
  <1>2. HandshakeInv'
    BY DEF HandshakeInv, HandshakeOK
  <1>3. IdInv'
    BY DEF IdInv, Registered, ClientsOf, ClientLink
  <1>4. SourceInv'
    <2>1. /\ SourceInv
          /\ UNCHANGED <<connected, connection_source, conn_id,
                         peer_connections, client_connections>>
      OBVIOUS
    <2> HIDE DEF RegInv, spawn_connection_listener
    <2> QED BY ZenonT(40), <2>1 DEF SourceInv, SourceOK, PeerLink
  <1>5. StoredInv'
    BY DEF StoredInv, PeerLink
  <1>6. ResolvedInv'
    BY DEF ResolvedInv, PeerLink, ClientsOf, Peers, RegistrationTypeOK
  <1> QED BY <1>1, <1>2, <1>3, <1>4, <1>5, <1>6

LEMMA DropStep ==
    ASSUME RegInv, NEW s \in Servers, NEW who, drop_incoming_connection(s, who)
    PROVE  RegInv'
  <1> USE DEF RegInv, drop_incoming_connection
  <1>1. RegistrationTypeOK'
    BY DEF RegistrationTypeOK
  <1>2. HandshakeInv'
    BY ZenonT(40) DEF HandshakeInv, HandshakeOK, RegistrationTypeOK
  <1>3. IdInv'
    BY DEF IdInv, Registered, ClientsOf, ClientLink
  <1>4. SourceInv'
    <2>1. /\ SourceInv
          /\ UNCHANGED <<connected, connection_source, conn_id,
                         peer_connections, client_connections>>
      OBVIOUS
    <2> HIDE DEF RegInv, drop_incoming_connection
    <2> QED BY ZenonT(40), <2>1 DEF SourceInv, SourceOK, PeerLink
  <1>5. StoredInv'
    BY DEF StoredInv, PeerLink
  <1>6. ResolvedInv'
    BY DEF ResolvedInv, PeerLink, ClientsOf, Peers, RegistrationTypeOK
  <1> QED BY <1>1, <1>2, <1>3, <1>4, <1>5, <1>6

\* A client connects.
LEMMA ClientConnectStep ==
    ASSUME RegInv, NEW c \in Clients, get_server_connection(c)
    PROVE  RegInv'
  <1> DEFINE s == server_id[c]
  <1>0. s \in Servers /\ c \notin Servers
    BY NetworkAssumption DEF NetworkAssumption
  <1> HIDE DEF s
  <1>1. /\ listener[s] = "listening"
        /\ <<c, s>> \notin connected
        /\ connected' = connected \cup {<<c, s>>}
        /\ handshakes' = [handshakes EXCEPT ![s] = @ \cup {c}]
        /\ UNCHANGED <<listener, max_client_id, conn_id, resolved,
                       peer_connections, client_connections, connection_source>>
    BY DEF get_server_connection, Connect, s
  <1> USE DEF RegInv
  <1>2. RegistrationTypeOK'
    BY <1>0, <1>1 DEF RegistrationTypeOK
  <1>3. conn_id[c] = 0
    BY <1>1 DEF IdInv, ClientLink, s
  <1>4. HandshakeInv'
    <2> SUFFICES ASSUME NEW u \in Servers, NEW who \in handshakes'[u]
                 PROVE  HandshakeOK(u, who)'
      BY DEF HandshakeInv
    <2>1. CASE who \in handshakes[u]
      BY <2>1, <1>1 DEF HandshakeInv, HandshakeOK
    <2>2. CASE who = c /\ u = s
      BY <2>2, <1>0, <1>1, <1>3 DEF s, HandshakeOK
    <2> QED BY <1>0, <1>1, <2>1, <2>2 DEF RegistrationTypeOK
  <1>5. IdInv'
    BY <1>1 DEF IdInv, Registered, ClientsOf, ClientLink
  <1>6. SourceInv'
    BY <1>1 DEF SourceInv, SourceOK, PeerLink
  <1>7. StoredInv'
    BY <1>1 DEF StoredInv, PeerLink
  <1>8. ResolvedInv'
    BY <1>0, <1>1 DEF ResolvedInv, PeerLink, ClientsOf, Peers, RegistrationTypeOK
  <1> QED BY <1>2, <1>4, <1>5, <1>6, <1>7, <1>8

\* A server connects to one with a lower id.
LEMMA PeerConnectStep ==
    ASSUME RegInv, NEW s \in Servers, NEW t \in Servers, spawn_peer_connectors(s, t)
    PROVE  RegInv'
  <1>0. s \in Nat /\ t \in Nat /\ s \notin Clients
    BY NetworkAssumption DEF NetworkAssumption
  <1>1. /\ t < s
        /\ listener[t] = "listening"
        /\ <<s, t>> \notin connected
        /\ connected' = connected \cup {<<s, t>>}
        /\ handshakes' = [handshakes EXCEPT ![t] = @ \cup {s}]
        /\ connection_source' = [connection_source EXCEPT ![s] = @ \cup {ToPeer(t)}]
        /\ UNCHANGED <<listener, max_client_id, conn_id, resolved,
                       peer_connections, client_connections>>
    BY DEF spawn_peer_connectors, Connect, ToPeer
  <1> USE DEF RegInv
  <1>2. RegistrationTypeOK'
    BY <1>1 DEF RegistrationTypeOK, ToPeer, NewConnections
  <1>3. PeerLink(s, t) = <<s, t>> /\ PeerLink(t, s) = <<s, t>>
    BY <1>0, <1>1 DEF PeerLink
  <1>4. /\ t \notin peer_connections[s]
        /\ s \notin peer_connections[t]
        /\ ToPeer(s) \notin connection_source[t]
        /\ s \notin resolved
    BY <1>0, <1>1, <1>3 DEF StoredInv, SourceInv, SourceOK, ToPeer, ResolvedInv, Peers
  <1>5. HandshakeInv'
    <2> SUFFICES ASSUME NEW u \in Servers, NEW who \in handshakes'[u]
                 PROVE  HandshakeOK(u, who)'
      BY DEF HandshakeInv
    <2>1. CASE who \in handshakes[u]
      <3>0. HandshakeOK(u, who)
        BY <2>1 DEF HandshakeInv
      <3>1. who \in Servers /\ u = s => who # t
        BY <3>0, <1>0, <1>1 DEF HandshakeOK
      <3>2. who \in Servers => ToPeer(who) \notin connection_source'[u]
        BY <2>1, <3>1, <1>1 DEF HandshakeInv, HandshakeOK, ToPeer, RegistrationTypeOK
      <3> QED BY <2>1, <1>1, <3>2 DEF HandshakeInv, HandshakeOK
    <2>2. CASE who = s /\ u = t
      BY <2>2, <1>0, <1>1, <1>4 DEF HandshakeOK
    <2> QED BY <1>1, <2>1, <2>2 DEF RegistrationTypeOK
  <1>6. IdInv'
    <2>1. \A u \in Servers : Registered(u)' = Registered(u)
      BY <1>1 DEF Registered, ClientsOf
    <2> QED BY <2>1, <1>1 DEF IdInv, ClientsOf, ClientLink
  <1>7. SourceInv'
    <2> SUFFICES ASSUME NEW u \in Servers, NEW n \in connection_source'[u]
                 PROVE  SourceOK(u, n)'
      BY DEF SourceInv
    <2>1. CASE n \in connection_source[u]
      BY <2>1, <1>1 DEF SourceInv, SourceOK
    <2>2. CASE n = ToPeer(t) /\ u = s
      BY <2>2, <1>0, <1>1, <1>3, <1>4 DEF ToPeer, SourceOK, PeerLink
    <2> QED BY <1>1, <2>1, <2>2 DEF RegistrationTypeOK
  <1>8. StoredInv'
    BY <1>1 DEF StoredInv, PeerLink
  <1>9. ResolvedInv'
    BY <1>1, <1>4 DEF ResolvedInv, PeerLink, ClientsOf, Peers, RegistrationTypeOK
  <1> QED BY <1>2, <1>5, <1>6, <1>7, <1>8, <1>9

\* The handshake of a server is read.
LEMMA PeerRegisterStep ==
    ASSUME RegInv, NEW s \in Servers, NEW who \in Servers,
           handle_incoming_connection(s, who)
    PROVE  RegInv'
  <1>0. s \in Nat /\ who \in Nat /\ who \notin Clients
    BY NetworkAssumption DEF NetworkAssumption
  <1>1. /\ who \in handshakes[s]
        /\ handshakes' = [handshakes EXCEPT ![s] = @ \ {who}]
        /\ connection_source' = [connection_source EXCEPT ![s] = @ \cup {ToPeer(who)}]
        /\ UNCHANGED <<listener, max_client_id, conn_id, resolved, connected,
                       peer_connections, client_connections>>
    BY DEF handle_incoming_connection, ToPeer
  <1> USE DEF RegInv
  <1>2. RegistrationTypeOK'
    BY <1>1 DEF RegistrationTypeOK, ToPeer, NewConnections
  <1>3. /\ <<who, s>> \in connected
        /\ who > s
        /\ who \notin peer_connections[s]
        /\ ToPeer(who) \notin connection_source[s]
        /\ s \notin resolved
    BY <1>0, <1>1 DEF HandshakeInv, HandshakeOK, ToPeer, ResolvedInv
  <1>4. PeerLink(s, who) = <<who, s>>
    BY <1>0, <1>3 DEF PeerLink
  <1>5. HandshakeInv'
    <2> SUFFICES ASSUME NEW u \in Servers, NEW w \in handshakes'[u]
                 PROVE  HandshakeOK(u, w)'
      BY DEF HandshakeInv
    <2>1. w \in handshakes[u] /\ (u = s => w # who)
      BY <1>1 DEF RegistrationTypeOK
    <2>2. w \in Servers => ToPeer(w) \notin connection_source'[u]
      BY <2>1, <1>1 DEF HandshakeInv, HandshakeOK, ToPeer, RegistrationTypeOK
    <2> QED BY <2>1, <2>2, <1>1 DEF HandshakeInv, HandshakeOK
  <1>6. IdInv'
    <2>1. \A u \in Servers : Registered(u)' = Registered(u)
      BY <1>1 DEF Registered, ClientsOf
    <2> QED BY <2>1, <1>1 DEF IdInv, ClientsOf, ClientLink
  <1>7. SourceInv'
    <2> SUFFICES ASSUME NEW u \in Servers, NEW n \in connection_source'[u]
                 PROVE  SourceOK(u, n)'
      BY DEF SourceInv
    <2>1. CASE n \in connection_source[u]
      BY <2>1, <1>1 DEF SourceInv, SourceOK, PeerLink
    <2>2. CASE n = ToPeer(who) /\ u = s
      BY <2>2, <1>0, <1>1, <1>3, <1>4 DEF ToPeer, SourceOK, PeerLink
    <2> QED BY <1>1, <2>1, <2>2 DEF RegistrationTypeOK
  <1>8. StoredInv'
    BY <1>1 DEF StoredInv, PeerLink
  <1>9. ResolvedInv'
    BY <1>1, <1>3 DEF ResolvedInv, PeerLink, ClientsOf, Peers, RegistrationTypeOK
  <1> QED BY <1>2, <1>5, <1>6, <1>7, <1>8, <1>9

\* The handshake of a client is read: it gets the next id.
LEMMA ClientRegisterStep ==
    ASSUME RegInv, NEW s \in Servers, NEW who \in Clients,
           handle_incoming_connection(s, who)
    PROVE  RegInv'
  <1> DEFINE next == max_client_id[s] + 1
  <1>0. who \notin Servers /\ IsFiniteSet(Clients) /\ NoClient \notin Clients
    BY NetworkAssumption DEF NetworkAssumption
  <1> USE DEF RegInv
  <1>1. /\ who \in handshakes[s]
        /\ handshakes' = [handshakes EXCEPT ![s] = @ \ {who}]
        /\ max_client_id' = [max_client_id EXCEPT ![s] = next]
        /\ conn_id' = [conn_id EXCEPT ![who] = next]
        /\ connection_source' = [connection_source EXCEPT ![s] =
                                     @ \cup {ToClient(who, next)}]
        /\ UNCHANGED <<listener, resolved, connected, peer_connections,
                       client_connections>>
    BY <1>0 DEF handle_incoming_connection, ToClient, RegistrationTypeOK
  <1>2. /\ <<who, s>> \in connected
        /\ server_id[who] = s
        /\ conn_id[who] = 0
        /\ s \notin resolved
    BY <1>1 DEF HandshakeInv, HandshakeOK, ResolvedInv
  <1>3. max_client_id[s] \in Nat /\ next \in Nat /\ next # 0
    BY DEF RegistrationTypeOK
  <1> HIDE DEF next
  <1>4. conn_id'[who] = next /\ \A c \in Clients \ {who} : conn_id'[c] = conn_id[c]
    BY <1>1 DEF RegistrationTypeOK
  <1>5. /\ Registered(s)' = Registered(s) \cup {who}
        /\ who \notin Registered(s)
        /\ \A u \in Servers \ {s} : Registered(u)' = Registered(u)
    BY <1>2, <1>3, <1>4 DEF Registered, ClientsOf
  <1>6. Cardinality(Registered(s)') = next /\ next <= Cardinality(Clients)
    <2>1. Registered(s) \in SUBSET Clients /\ Registered(s)' \in SUBSET Clients
      BY DEF Registered, ClientsOf
    <2>2. IsFiniteSet(Registered(s))
      BY <2>1, <1>0, FS_Subset
    <2>3. Cardinality(Registered(s)') = Cardinality(Registered(s)) + 1
      BY <1>5, <2>2, FS_AddElement
    <2>4. Cardinality(Registered(s)) = max_client_id[s]
      BY DEF IdInv
    <2> QED BY <2>1, <2>3, <2>4, <1>0, FS_Subset DEF next
  <1>7. next \in ClientIds
    BY <1>3, <1>6, ClientIdsType DEF ClientIds
  <1>8. RegistrationTypeOK'
    BY <1>1, <1>3, <1>7 DEF RegistrationTypeOK, ToClient, NewConnections
  <1>9. HandshakeInv'
    <2> SUFFICES ASSUME NEW u \in Servers, NEW w \in handshakes'[u]
                 PROVE  HandshakeOK(u, w)'
      BY DEF HandshakeInv
    <2>1. w \in handshakes[u] /\ (u = s => w # who)
      BY <1>1 DEF RegistrationTypeOK
    <2>2. HandshakeOK(u, w)
      BY <2>1 DEF HandshakeInv
    <2>3. w \in Clients => w # who /\ conn_id'[w] = 0
      BY <2>1, <2>2, <1>2, <1>4 DEF HandshakeOK
    <2>4. w \in Servers => ToPeer(w) \notin connection_source'[u]
      BY <2>2, <1>1 DEF HandshakeOK, ToPeer, ToClient, RegistrationTypeOK
    <2> QED BY <2>2, <2>3, <2>4, <1>1 DEF HandshakeOK
  <1>10. \A c \in Clients : server_id[c] = s => conn_id[c] < next
    <2> SUFFICES ASSUME NEW c \in Clients, server_id[c] = s
                 PROVE  conn_id[c] < next
      OBVIOUS
    <2>1. conn_id[c] \in Nat
      BY ConnIdType
    <2>2. conn_id[c] # 0 => conn_id[c] <= max_client_id[s]
      BY DEF IdInv
    <2> QED BY <2>1, <2>2, <1>3 DEF next
  <1>11. IdInv'
    <2>1. ASSUME NEW c \in Clients, conn_id'[c] # 0
          PROVE  /\ ClientLink(c) \in connected
                 /\ conn_id'[c] <= max_client_id'[server_id[c]]
      <3>1. CASE c = who
        BY <3>1, <1>1, <1>2, <1>3, <1>4 DEF ClientLink, RegistrationTypeOK
      <3>2. CASE c # who
        <4>1. /\ ClientLink(c) \in connected
              /\ conn_id[c] <= max_client_id[server_id[c]]
          BY <2>1, <3>2, <1>4 DEF IdInv
        <4>2. server_id[c] = s => conn_id[c] <= next
          <5>1. conn_id[c] \in Nat
            BY ConnIdType
          <5> QED BY <5>1, <1>10, <1>3
        <4> QED BY <4>1, <4>2, <3>2, <1>1, <1>4 DEF RegistrationTypeOK
      <3> QED BY <3>1, <3>2
    <2>2. ASSUME NEW c \in Clients, NEW d \in Clients, server_id[c] = server_id[d],
                 conn_id'[c] = conn_id'[d], conn_id'[c] # 0
          PROVE  c = d
      <3>1. \A e \in Clients : server_id[e] = s => conn_id[e] # next
        BY <1>3, <1>10, ConnIdType
      <3>2. CASE c # who /\ d # who
        BY <2>2, <3>2, <1>4 DEF IdInv
      <3> QED BY <2>2, <3>1, <3>2, <1>2, <1>4
    <2>3. ASSUME NEW u \in Servers
          PROVE  Cardinality(Registered(u)') = max_client_id'[u]
      BY <1>1, <1>5, <1>6 DEF IdInv, RegistrationTypeOK
    <2>4. ASSUME NEW u \in Servers, NEW k \in 1 .. max_client_id'[u]
          PROVE  \E c \in ClientsOf(u) : conn_id'[c] = k
      <3>1. CASE u = s /\ k = next
        BY <3>1, <1>2, <1>4 DEF ClientsOf
      <3>2. CASE ~(u = s /\ k = next)
        <4>1. k \in 1 .. max_client_id[u] /\ k # 0
          <5>1. max_client_id' = [max_client_id EXCEPT ![s] = max_client_id[s] + 1]
            BY <1>1 DEF next
          <5>2. max_client_id \in [Servers -> Nat]
            BY DEF RegistrationTypeOK
          <5>3. CASE u = s
            BY <3>2, <5>1, <5>2, <5>3 DEF next
          <5>4. CASE u # s
            BY <5>1, <5>2, <5>4
          <5> QED BY <5>3, <5>4
        <4>2. PICK c \in ClientsOf(u) : conn_id[c] = k
          BY <4>1 DEF IdInv
        <4>3. c # who /\ c \in Clients
          BY <4>1, <4>2, <1>2 DEF ClientsOf
        <4> QED BY <4>2, <4>3, <1>4
      <3> QED BY <3>1, <3>2
    <2> QED BY <2>1, <2>2, <2>3, <2>4, <1>1 DEF IdInv, ClientLink, ClientsOf
  <1>12. client_connections[s][next] = NoClient
    <2>1. client_connections[s][next] \in Clients \cup {NoClient}
      BY <1>7 DEF RegistrationTypeOK
    <2>2. client_connections[s][next] # NoClient =>
             /\ server_id[client_connections[s][next]] = s
             /\ conn_id[client_connections[s][next]] = next
      BY <1>7 DEF StoredInv
    <2> QED BY <2>1, <2>2, <1>10, <1>3
  <1>13. SourceInv'
    <2> SUFFICES ASSUME NEW u \in Servers, NEW n \in connection_source'[u]
                 PROVE  SourceOK(u, n)'
      BY DEF SourceInv
    <2>1. CASE n \in connection_source[u]
      <3>1. SourceOK(u, n)
        BY <2>1 DEF SourceInv
      <3>2. n.type = "ToClient" => n.client \in Clients /\ n.client_id \in ClientIds
        BY <2>1 DEF RegistrationTypeOK, NewConnections
      <3>3. n.type = "ToClient" => n.client # who
        BY <3>1, <3>2, <1>2, ClientIdsType DEF SourceOK
      <3> QED BY <3>1, <3>2, <3>3, <1>1, <1>4 DEF SourceOK, PeerLink
    <2>2. CASE n = ToClient(who, next) /\ u = s
      BY <2>2, <1>1, <1>2, <1>4, <1>12 DEF ToClient, SourceOK
    <2> QED BY <1>1, <2>1, <2>2 DEF RegistrationTypeOK
  <1>14. StoredInv'
    <2> SUFFICES ASSUME NEW u \in Servers, NEW id \in ClientIds,
                        client_connections[u][id] # NoClient
                 PROVE  /\ server_id[client_connections[u][id]] = u
                        /\ conn_id'[client_connections[u][id]] = id
      BY <1>1 DEF StoredInv, PeerLink
    <2>1. /\ server_id[client_connections[u][id]] = u
          /\ conn_id[client_connections[u][id]] = id
      BY DEF StoredInv
    <2>2. client_connections[u][id] \in Clients
      BY DEF RegistrationTypeOK
    <2> QED BY <2>1, <2>2, <1>2, <1>4, ClientIdsType
  <1>15. ResolvedInv'
    <2> SUFFICES ASSUME NEW u \in resolved
                 PROVE  /\ listener[u] = "aborted"
                        /\ handshakes'[u] = {}
                        /\ connection_source'[u] = {}
                        /\ \A t \in Peers(u) : PeerLink(u, t) \in connected
                        /\ \A c \in ClientsOf(u) : conn_id'[c] # 0
      BY <1>1 DEF ResolvedInv, PeerLink, ClientsOf, Peers
    <2>1. u \in Servers /\ u # s
      BY <1>2 DEF RegistrationTypeOK
    <2> QED BY <2>1, <1>1, <1>3, <1>4 DEF ResolvedInv, ClientsOf, RegistrationTypeOK
  <1> QED BY <1>8, <1>9, <1>11, <1>13, <1>14, <1>15

\* As many stored clients as the server has are all of them.
LEMMA AllStored ==
    ASSUME NEW s \in Servers,
           NEW cc \in [ClientIds -> Clients \cup {NoClient}],
           \A id \in ClientIds : cc[id] # NoClient => server_id[cc[id]] = s,
           \A i, j \in ClientIds : cc[i] = cc[j] /\ cc[i] # NoClient => i = j,
           Cardinality({id \in ClientIds : cc[id] # NoClient}) >= num_clients(s)
    PROVE  \A c \in ClientsOf(s) : \E id \in ClientIds : cc[id] = c
  <1> DEFINE D == {id \in ClientIds : cc[id] # NoClient}
             f == [id \in D |-> cc[id]]
  <1>1. IsFiniteSet(ClientsOf(s)) /\ num_clients(s) = Cardinality(ClientsOf(s))
    <2>1. ClientsOf(s) \in SUBSET Clients
      BY DEF ClientsOf
    <2> QED BY <2>1, FS_Subset, NetworkAssumption
        DEF NetworkAssumption, num_clients, ClientsOf
  <1>2. f \in Injection(D, ClientsOf(s))
    BY DEF Injection, IsInjective, ClientsOf
  <1>3. /\ IsFiniteSet(D)
        /\ Cardinality(D) <= Cardinality(ClientsOf(s))
        /\ Cardinality(D) = Cardinality(ClientsOf(s)) <=> f \in Surjection(D, ClientsOf(s))
    BY <1>1, <1>2, FS_Injection
  <1>4. Cardinality(D) = Cardinality(ClientsOf(s))
    <2>1. Cardinality(D) \in Nat /\ Cardinality(ClientsOf(s)) \in Nat
      BY <1>1, <1>3, FS_CardinalityType
    <2> QED BY <2>1, <1>1, <1>3
  <1> QED BY <1>3, <1>4 DEF Surjection

\* A connection is stored; with the last one Network::new returns.
LEMMA StoreStep ==
    ASSUME RegInv, NEW s \in Servers, initialize_connections(s)
    PROVE  RegInv'
  <1> USE DEF RegInv
  <1>1. PICK n \in connection_source[s] :
            /\ s \notin resolved
            /\ connection_source' = [connection_source EXCEPT ![s] = @ \ {n}]
            /\ n.type = "ToPeer" =>
                   /\ peer_connections' =
                          [peer_connections EXCEPT ![s] = @ \cup {n.peer_id}]
                   /\ UNCHANGED client_connections
            /\ n.type # "ToPeer" =>
                   /\ client_connections' =
                          [client_connections EXCEPT ![s][n.client_id] = n.client]
                   /\ UNCHANGED peer_connections
            /\ \/ /\ AllConnected(s, peer_connections'[s], client_connections'[s])
                  /\ listener' = [listener EXCEPT ![s] = "aborted"]
                  /\ resolved' = resolved \cup {s}
               \/ UNCHANGED <<listener, resolved>>
            /\ UNCHANGED <<connected, handshakes, max_client_id, conn_id>>
    BY DEF initialize_connections
  <1>2. SourceOK(s, n)
    BY DEF SourceInv
  <1>3. \/ n.type = "ToPeer" /\ n.peer_id \in Servers
        \/ n.type = "ToClient" /\ n.client \in Clients /\ n.client_id \in ClientIds
    BY DEF RegistrationTypeOK, NewConnections
  <1>4. RegistrationTypeOK'
    <2>1. /\ connection_source' \in [Servers -> SUBSET NewConnections]
          /\ listener' \in [Servers -> {"unbound", "listening", "aborted"}]
          /\ resolved' \subseteq Servers
      BY <1>1 DEF RegistrationTypeOK
    <2>2. /\ peer_connections' \in [Servers -> SUBSET Servers]
          /\ client_connections' \in [Servers -> [ClientIds -> Clients \cup {NoClient}]]
      <3>1. /\ peer_connections \in [Servers -> SUBSET Servers]
            /\ client_connections \in [Servers -> [ClientIds -> Clients \cup {NoClient}]]
        BY DEF RegistrationTypeOK
      <3>2. CASE n.type = "ToPeer"
        BY <3>1, <3>2, <1>1, <1>3
      <3>3. CASE n.type = "ToClient"
        BY <3>1, <3>3, <1>1, <1>3
      <3> QED BY <3>2, <3>3, <1>3
    <2> QED BY <1>1, <2>1, <2>2 DEF RegistrationTypeOK
  <1>5. IdInv'
    <2>1. \A u \in Servers : Registered(u)' = Registered(u)
      BY <1>1 DEF Registered, ClientsOf
    <2> QED BY <2>1, <1>1 DEF IdInv, ClientsOf, ClientLink
  <1>6. \A u \in Servers : connection_source'[u] \subseteq connection_source[u]
    BY <1>1 DEF RegistrationTypeOK
  <1>7. n \notin connection_source'[s]
    BY <1>1 DEF RegistrationTypeOK
  <1>8. HandshakeInv'
    <2> SUFFICES ASSUME NEW u \in Servers, NEW w \in handshakes[u]
                 PROVE  HandshakeOK(u, w)'
      BY <1>1 DEF HandshakeInv
    <2>1. HandshakeOK(u, w)
      BY DEF HandshakeInv
    <2>2. w \in Servers => w \notin peer_connections'[u]
      <3>1. CASE u = s /\ n.type = "ToPeer"
        <4>1. n.peer_id # w \/ w \notin Servers
          <5>1. n = ToPeer(n.peer_id)
            BY <3>1 DEF ToPeer, RegistrationTypeOK, NewConnections
          <5> QED BY <2>1, <3>1, <5>1 DEF HandshakeOK
        <4> QED BY <2>1, <3>1, <4>1, <1>1 DEF HandshakeOK, RegistrationTypeOK
      <3>2. CASE ~(u = s /\ n.type = "ToPeer")
        BY <2>1, <3>2, <1>1 DEF HandshakeOK, RegistrationTypeOK
      <3> QED BY <3>1, <3>2
    <2> QED BY <2>1, <2>2, <1>1, <1>6 DEF HandshakeOK
  <1>9. SourceInv'
    <2> SUFFICES ASSUME NEW u \in Servers, NEW m \in connection_source'[u]
                 PROVE  SourceOK(u, m)'
      BY DEF SourceInv
    <2>1. m \in connection_source[u] /\ (u = s => m # n)
      BY <1>6, <1>7
    <2>2. SourceOK(u, m)
      BY <2>1 DEF SourceInv
    <2>3. \/ m.type = "ToPeer" /\ m = ToPeer(m.peer_id)
          \/ /\ m.type = "ToClient" /\ m = ToClient(m.client, m.client_id)
             /\ m.client \in Clients /\ m.client_id \in ClientIds
      BY <2>1 DEF RegistrationTypeOK, NewConnections, ToPeer, ToClient
    <2>4. \/ n.type = "ToPeer" /\ n = ToPeer(n.peer_id)
          \/ /\ n.type = "ToClient" /\ n = ToClient(n.client, n.client_id)
             /\ n.client \in Clients /\ n.client_id \in ClientIds
      BY DEF RegistrationTypeOK, NewConnections, ToPeer, ToClient
    <2>5. m.type = "ToPeer" => m.peer_id \notin peer_connections'[u]
      BY <2>1, <2>2, <2>3, <2>4, <1>1 DEF SourceOK, RegistrationTypeOK
    <2>6. m.type = "ToClient" => client_connections'[u][m.client_id] = NoClient
      <3> SUFFICES ASSUME m.type = "ToClient"
                   PROVE  client_connections'[u][m.client_id] = NoClient
        OBVIOUS
      <3>1. client_connections[u][m.client_id] = NoClient
        BY <2>2 DEF SourceOK
      <3>2. CASE u = s /\ n.type = "ToClient"
        <4>1. m.client_id # n.client_id
          <5> SUFFICES ASSUME m.client_id = n.client_id PROVE FALSE
            OBVIOUS
          <5>1. /\ server_id[m.client] = server_id[n.client]
                /\ conn_id[m.client] = conn_id[n.client]
                /\ conn_id[m.client] # 0
            BY <2>2, <2>3, <3>2, <1>2, ClientIdsType DEF SourceOK
          <5>2. m.client = n.client
            BY <5>1, <2>3, <2>4, <3>2 DEF IdInv
          <5> QED BY <5>2, <2>1, <2>3, <2>4, <3>2
        <4> QED BY <3>1, <3>2, <4>1, <1>1, <2>3, <2>4 DEF RegistrationTypeOK
      <3>3. CASE u # s \/ n.type = "ToPeer"
        BY <3>1, <3>3, <1>1, <1>3 DEF RegistrationTypeOK
      <3> QED BY <3>2, <3>3, <1>3
    <2> QED BY <2>2, <2>5, <2>6, <1>1 DEF SourceOK, PeerLink
  <1>10. StoredInv'
    <2>1. ASSUME NEW u \in Servers, NEW t \in peer_connections'[u]
          PROVE  t # u /\ PeerLink(u, t) \in connected
      <3>1. CASE t \in peer_connections[u]
        BY <3>1 DEF StoredInv
      <3>2. CASE t \notin peer_connections[u]
        <4>1. u = s /\ n.type = "ToPeer" /\ t = n.peer_id
          BY <2>1, <3>2, <1>1 DEF RegistrationTypeOK
        <4> QED BY <4>1, <1>2 DEF SourceOK
      <3> QED BY <3>1, <3>2
    <2>2. ASSUME NEW u \in Servers, NEW id \in ClientIds,
                 client_connections'[u][id] # NoClient
          PROVE  /\ server_id[client_connections'[u][id]] = u
                 /\ conn_id[client_connections'[u][id]] = id
      <3>1. CASE u = s /\ n.type = "ToClient" /\ id = n.client_id
        BY <3>1, <1>1, <1>2, <1>3 DEF SourceOK, RegistrationTypeOK
      <3>2. CASE ~(u = s /\ n.type = "ToClient" /\ id = n.client_id)
        <4>1. client_connections'[u][id] = client_connections[u][id]
          BY <3>2, <1>1, <1>3 DEF RegistrationTypeOK
        <4> QED BY <4>1, <2>2 DEF StoredInv
      <3> QED BY <3>1, <3>2
    <2> QED BY <2>1, <2>2, <1>1 DEF StoredInv, PeerLink
  <1>11. ResolvedInv'
    <2> SUFFICES ASSUME NEW u \in resolved'
                 PROVE  /\ listener'[u] = "aborted"
                        /\ handshakes'[u] = {}
                        /\ connection_source'[u] = {}
                        /\ \A t \in Peers(u) : PeerLink(u, t) \in connected'
                        /\ \A c \in ClientsOf(u) : conn_id'[c] # 0
      BY DEF ResolvedInv, PeerLink, ClientsOf, Peers
    <2>0. u \in Servers
      BY <1>4 DEF RegistrationTypeOK
    <2>1. CASE u \in resolved
      <3>1. u # s
        BY <2>1, <1>1
      <3> QED BY <3>1, <2>0, <2>1, <1>1 DEF ResolvedInv, RegistrationTypeOK
    <2>2. CASE u \notin resolved
      <3>1. /\ u = s
            /\ AllConnected(s, peer_connections'[s], client_connections'[s])
            /\ listener'[s] = "aborted"
        BY <2>2, <1>1 DEF RegistrationTypeOK
      <3> DEFINE cc == client_connections'[s]
      <3>2. /\ cc \in [ClientIds -> Clients \cup {NoClient}]
            /\ \A id \in ClientIds :
                   cc[id] # NoClient => server_id[cc[id]] = s /\ conn_id[cc[id]] = id
        BY <1>1, <1>4, <1>10 DEF RegistrationTypeOK, StoredInv
      <3>3. /\ Cardinality({id \in ClientIds : cc[id] # NoClient}) >= num_clients(s)
            /\ peer_connections'[s] = Peers(s)
        BY <3>1 DEF AllConnected
      <3> HIDE DEF cc
      <3>4. \A c \in ClientsOf(s) : \E id \in ClientIds : cc[id] = c
        BY <3>2, <3>3, AllStored
      <3>5. \A c \in ClientsOf(s) :
               conn_id[c] \in ClientIds /\ cc[conn_id[c]] = c /\ c # NoClient
        BY <3>2, <3>4, NetworkAssumption DEF ClientsOf, NetworkAssumption
      <3>6. handshakes[s] = {}
        <4> SUFFICES ASSUME NEW w \in handshakes[s] PROVE FALSE
          OBVIOUS
        <4>1. HandshakeOK(s, w)' /\ HandshakeOK(s, w)
          BY <1>8, <1>1 DEF HandshakeInv
        <4>2. CASE w \in Clients
          BY <4>1, <4>2, <3>5, ClientIdsType DEF HandshakeOK, ClientsOf
        <4>3. CASE w \in Servers
          <5>1. w \notin Peers(s) /\ w > s
            BY <4>1, <4>3, <3>3 DEF HandshakeOK
          <5> QED BY <5>1, <4>3, NetworkAssumption DEF Peers, NetworkAssumption
        <4> QED BY <4>2, <4>3 DEF RegistrationTypeOK
      <3>7. connection_source'[s] = {}
        <4> SUFFICES ASSUME NEW m \in connection_source'[s] PROVE FALSE
          OBVIOUS
        <4>1. SourceOK(s, m)'
          BY <1>9 DEF SourceInv
        <4>2. \/ m.type = "ToPeer" /\ m.peer_id \in Servers
              \/ m.type = "ToClient" /\ m.client \in Clients
          BY <1>6 DEF RegistrationTypeOK, NewConnections
        <4>3. CASE m.type = "ToPeer" /\ m.peer_id \in Servers
          BY <4>1, <4>3, <3>3 DEF SourceOK, Peers
        <4>4. CASE m.type = "ToClient" /\ m.client \in Clients
          BY <4>1, <4>4, <3>5, <1>1 DEF SourceOK, ClientsOf, cc
        <4> QED BY <4>2, <4>3, <4>4
      <3>8. \A t \in Peers(s) : PeerLink(s, t) \in connected'
        BY <3>3, <1>10 DEF StoredInv, PeerLink
      <3>9. \A c \in ClientsOf(s) : conn_id[c] # 0
        BY <3>5, ClientIdsType
      <3> QED BY <3>1, <3>6, <3>7, <3>8, <3>9, <1>1
    <2> QED BY <2>1, <2>2
  <1> QED BY <1>4, <1>5, <1>8, <1>9, <1>10, <1>11

------------------------------------------------------------------------------
(* All other steps only give connections up.                                *)

\* send_to_client removes connections of its own server.
ClientsGivenUp ==
    /\ client_connections' \in [Servers -> [ClientIds -> Clients \cup {NoClient}]]
    /\ \A s \in Servers : \A id \in ClientIds :
           client_connections'[s][id] \in {client_connections[s][id], NoClient}

LEMMA SendingGivesUp ==
    ASSUME RegistrationTypeOK, NEW s \in Servers, NEW messages,
           send_to_clients(s, messages)
    PROVE  ClientsGivenUp
  <1>1. PICK removed :
            client_connections' = [client_connections EXCEPT ![s] =
                [id \in ClientIds |->
                    IF id \in removed THEN NoClient ELSE @[id]]]
    BY DEF send_to_clients
  <1>2. client_connections \in [Servers -> [ClientIds -> Clients \cup {NoClient}]]
    BY DEF RegistrationTypeOK
  <1> QED BY <1>1, <1>2 DEF ClientsGivenUp

LEMMA ServerGivesUp ==
    ASSUME RegistrationTypeOK, NEW s \in Servers, ServerStep(s)
    PROVE  OnlyGivenUp
  <1>0. /\ peer_connections \in [Servers -> SUBSET Servers]
        /\ client_connections \in [Servers -> [ClientIds -> Clients \cup {NoClient}]]
    BY DEF RegistrationTypeOK
  <1>1. ASSUME UNCHANGED <<registrationVars, peer_connections>>, ClientsGivenUp
        PROVE  OnlyGivenUp
    BY <1>0, <1>1 DEF OnlyGivenUp, ClientsGivenUp
  <1>2. UNCHANGED client_connections => ClientsGivenUp
    BY <1>0 DEF ClientsGivenUp
  <1>3. CASE establish_initial_leader(s)
    BY <1>1, <1>3, SendingGivesUp
    DEF establish_initial_leader, send_client_start_signals
  <1>4. CASE handle_omnipaxos_message(s)
    BY <1>1, <1>2, <1>4 DEF handle_omnipaxos_message, netVars
  <1>5. CASE update_database_and_respond(s)
    BY <1>1, <1>2, <1>5, SendingGivesUp DEF update_database_and_respond
  <1>6. ASSUME NEW t \in Servers, handle_start_signal(s, t)
        PROVE  OnlyGivenUp
    BY <1>1, <1>6, SendingGivesUp
    DEF handle_start_signal, send_client_start_signals
  <1>7. ASSUME NEW t \in Servers, send_outgoing_msgs(s, t)
        PROVE  OnlyGivenUp
    <2>1. /\ UNCHANGED <<registrationVars, client_connections>>
          /\ peer_connections' = [peer_connections EXCEPT ![s] = @ \ {t}]
      BY <1>7 DEF send_outgoing_msgs
    <2> QED BY <2>1, <1>0 DEF OnlyGivenUp
  <1>8. ASSUME NEW c \in Clients, handle_client_message(s, c)
        PROVE  OnlyGivenUp
    BY <1>1, <1>2, <1>8 DEF handle_client_message
  <1> QED BY <1>3, <1>4, <1>5, <1>6, <1>7, <1>8 DEF ServerStep

LEMMA OthersGiveUp ==
    ASSUME RegistrationTypeOK,
           \/ Break
           \/ TakeLeadership
           \/ \E cmd \in proposed : Decide(cmd)
           \/ \E c \in Clients : ClientStep(c)
           \/ UNCHANGED vars
    PROVE  OnlyGivenUp
  <1>0. /\ peer_connections \in [Servers -> SUBSET Servers]
        /\ client_connections \in [Servers -> [ClientIds -> Clients \cup {NoClient}]]
    BY DEF RegistrationTypeOK
  <1> SUFFICES UNCHANGED <<registrationVars, peer_connections, client_connections>>
    BY <1>0 DEF OnlyGivenUp
  <1>1. CASE Break
    BY <1>1 DEF Break, BreakPeer, BreakClient
  <1>2. CASE TakeLeadership
    BY <1>2 DEF TakeLeadership, netVars
  <1>3. CASE \E cmd \in proposed : Decide(cmd)
    BY <1>3 DEF Decide, netVars
  <1>4. ASSUME NEW c \in Clients, ClientStep(c)
        PROVE  UNCHANGED <<registrationVars, peer_connections, client_connections>>
    <2>1. CASE wait_for_start_signal(c)
      BY <2>1 DEF wait_for_start_signal
    <2>2. CASE handle_server_message(c)
      BY <2>2 DEF handle_server_message
    <2>3. CASE \E is_write \in BOOLEAN : request_tick(c, is_write)
      BY <2>3 DEF request_tick, netVars
    <2>4. CASE send_request(c)
      BY <2>4 DEF send_request
    <2>5. CASE next_interval_ends(c)
      BY <2>5 DEF next_interval_ends
    <2> QED BY <1>4, <2>1, <2>2, <2>3, <2>4, <2>5 DEF ClientStep
  <1>5. CASE UNCHANGED vars
    BY <1>5 DEF vars, netVars
  <1> QED BY <1>1, <1>2, <1>3, <1>4, <1>5

LEMMA RegStep == RegInv /\ [Next]_vars => RegInv'
  <1> SUFFICES ASSUME RegInv, [Next]_vars PROVE RegInv'
    OBVIOUS
  <1>0. RegistrationTypeOK
    BY DEF RegInv
  <1>1. CASE RegistrationStep
    <2>1. ASSUME NEW s \in Servers, NEW who \in Servers \cup Clients,
                 handle_incoming_connection(s, who)
          PROVE  RegInv'
      BY <2>1, PeerRegisterStep, ClientRegisterStep
    <2> QED BY <1>1, <2>1, ListenerStep, StoreStep, DropStep, PeerConnectStep,
               ClientConnectStep DEF RegistrationStep
  <1>2. CASE Break \/ TakeLeadership \/ (\E cmd \in proposed : Decide(cmd))
             \/ (\E c \in Clients : ClientStep(c)) \/ UNCHANGED vars
    BY <1>0, <1>2, OthersGiveUp, GivingUpStep
  <1>3. ASSUME NEW s \in Servers, ServerStep(s)
        PROVE  RegInv'
    BY <1>0, <1>3, ServerGivesUp, GivingUpStep
  <1> QED BY <1>1, <1>2, <1>3 DEF Next

\* The inductive invariant of the registration, whatever breaks.
THEOREM RegistrationInvariant == Spec => []RegInv
  BY RegInit, RegStep, PTL DEF Spec

\* No server returns from Network::new while somebody is still in the middle
\* of a registration with it (the listener is aborted, nobody is cut off).
THEOREM NobodyIsLeftBehind == Spec => []NobodyLeftBehind
  <1>1. RegInv => NobodyLeftBehind
    BY DEF RegInv, ResolvedInv, NobodyLeftBehind
  <1> QED BY <1>1, RegistrationInvariant, PTL

\* The start signals of send_client_start_signals, to the ids 1..num_clients,
\* name every client of the server, in whatever order they registered.
THEOREM StartSignalsNameAll == Spec => []StartIdsAreClientIds
  <1>1. RegInv => StartIdsAreClientIds
    <2> SUFFICES ASSUME RegInv, NEW s \in resolved
                 PROVE  {conn_id[c] : c \in ClientsOf(s)} = 1 .. num_clients(s)
      BY DEF StartIdsAreClientIds, ClientsOf
    <2> USE DEF RegInv
    <2>1. s \in Servers /\ max_client_id[s] \in Nat
      BY DEF RegistrationTypeOK
    <2>2. Registered(s) = ClientsOf(s)
      BY DEF ResolvedInv, Registered
    <2>3. max_client_id[s] = num_clients(s)
      BY <2>1, <2>2 DEF IdInv, num_clients, ClientsOf
    <2>4. \A c \in ClientsOf(s) : conn_id[c] \in 1 .. max_client_id[s]
      <3> SUFFICES ASSUME NEW c \in ClientsOf(s)
                   PROVE  conn_id[c] \in 1 .. max_client_id[s]
        OBVIOUS
      <3>1. c \in Clients /\ server_id[c] = s /\ conn_id[c] # 0
        BY DEF ClientsOf, ResolvedInv
      <3>2. conn_id[c] <= max_client_id[s] /\ conn_id[c] \in Nat
        BY <3>1, ConnIdType DEF IdInv
      <3> QED BY <3>1, <3>2, <2>1
    <2>5. \A k \in 1 .. max_client_id[s] : \E c \in ClientsOf(s) : conn_id[c] = k
      BY <2>1 DEF IdInv
    <2> QED BY <2>3, <2>4, <2>5
  <1> QED BY <1>1, RegistrationInvariant, PTL

------------------------------------------------------------------------------
(* The parts of the inductive invariant, next to RegInv.                    *)

\* A client that has a message, has sent one or was started is registered,
\* and nothing of all this comes before the election.
StartInv ==
    /\ \A c \in Clients :
           client_stage[c] # "waiting" \/ to_client[c] # <<>> \/ to_server[c] # <<>>
               => conn_id[c] # 0 /\ elected
    /\ start_signals # {} \/ proposed # {} \/ log # <<>> => elected

\* Requests are numbered as they are recorded.
RequestInv ==
    \A c \in Clients :
        /\ next_request_id[c] = Len(request_data[c])
        /\ sending[c] # NotSending => Len(request_data[c]) < MaxRequests
        /\ client_stage[c] = "waiting" => request_data[c] = <<>> /\ sending[c] = NotSending

\* A command that waits or is decided is of a client that has recorded it, and
\* its client id is not one that will still be given to another.
KnownCommand(cmd) ==
    /\ cmd.client_id <= max_client_id[cmd.coordinator_id]
    /\ \A c \in Clients :
           server_id[c] = cmd.coordinator_id /\ conn_id[c] = cmd.client_id
               => cmd.id < Len(request_data[c])

MessageInv ==
    /\ \A c \in Clients :
           /\ \A i \in 1 .. Len(to_server[c]) : to_server[c][i].id < Len(request_data[c])
           /\ \A i \in 1 .. Len(to_client[c]) :
                  to_client[c][i] # StartSignal =>
                      to_client[c][i].id < Len(request_data[c])
           /\ client_stage[c] # "panicked"
    /\ \A cmd \in proposed : KnownCommand(cmd)
    /\ \A i \in 1 .. Len(log) : KnownCommand(log[i])

\* What a server has read and not executed is the part of the log that follows
\* what it has executed.
ReplicaInv ==
    /\ Len(states) = Len(log) + 1
    /\ \A i \in 1 .. Len(log) : states[i + 1] = handle_command(states[i], log[i].kv_cmd)
    /\ \A s \in Servers :
           /\ current_decided_idx[s] <= Len(log)
           /\ Len(decided_commands[s]) <= current_decided_idx[s]
           /\ \A j \in 1 .. Len(decided_commands[s]) :
                  decided_commands[s][j] = log[Applied(s) + j]
           /\ database[s] = states[Applied(s) + 1]

ClusterInv ==
    /\ LinkTypeOK
    /\ ServerTypeOK
    /\ ClientTypeOK
    /\ StartInv
    /\ RequestInv
    /\ MessageInv
    /\ ReplicaInv

------------------------------------------------------------------------------
(* Commands, responses and what is sent to clients.                         *)

LEMMA CommandType ==
    ASSUME NEW db \in Databases, NEW cmd \in KVCommand
    PROVE  handle_command(db, cmd) \in Databases
  BY DEF handle_command, Databases, KVCommand

LEMMA ResponseType ==
    ASSUME NEW db \in Databases, NEW cmd \in KVCommand, NEW id \in Nat
    PROVE  /\ response_to(db, cmd, id) \in ServerMessages
           /\ response_to(db, cmd, id).id = id
  <1>1. CASE cmd.type = "Get"
    <2>1. cmd.key \in Keys
      BY DEF KVCommand
    <2>2. db[cmd.key] \in Values \cup {None}
      BY <2>1 DEF Databases
    <2> QED BY <1>1, <2>2 DEF response_to, ServerMessages
  <1>2. CASE cmd.type # "Get"
    BY <1>2 DEF response_to, ServerMessages
  <1> QED BY <1>1, <1>2

\* send_to_clients appends the message for an id to the queue of the client
\* that was given this id.
LEMMA Sending ==
    ASSUME RegInv, LinkTypeOK, NEW s \in Servers, NEW messages,
           DOMAIN messages \subseteq ClientIds,
           \A id \in DOMAIN messages : messages[id] \in ServerMessages,
           send_to_clients(s, messages)
    PROVE  /\ to_client' \in [Clients -> Seq(ServerMessages)]
           /\ \A c \in Clients :
                  \/ to_client'[c] = to_client[c]
                  \/ \E id \in DOMAIN messages :
                         /\ server_id[c] = s
                         /\ conn_id[c] = id
                         /\ to_client'[c] = Append(to_client[c], messages[id])
  <1> DEFINE ids == {id \in DOMAIN messages : client_connections[s][id] # NoClient}
             down == {id \in ids : ClientLink(client_connections[s][id]) \in closed}
             id_of(c) == CHOOSE id \in ids : client_connections[s][id] = c
             receivers == {client_connections[s][id] : id \in ids \ down}
  <1>1. to_client' = [c \in Clients |->
               IF c \in receivers THEN Append(to_client[c], messages[id_of(c)])
                                  ELSE to_client[c]]
    BY DEF send_to_clients
  <1>2. ASSUME NEW c \in receivers
        PROVE  /\ id_of(c) \in DOMAIN messages
               /\ client_connections[s][id_of(c)] = c
               /\ c # NoClient
    <2>1. \E id \in ids : client_connections[s][id] = c
      BY <1>2
    <2>2. id_of(c) \in ids /\ client_connections[s][id_of(c)] = c
      BY <2>1
    <2> QED BY <2>2
  <1> HIDE DEF receivers, ids, down, id_of
  <1>3. to_client \in [Clients -> Seq(ServerMessages)]
    BY DEF LinkTypeOK
  <1>4. ASSUME NEW c \in receivers
        PROVE  server_id[c] = s /\ conn_id[c] = id_of(c)
    <2>1. id_of(c) \in ClientIds
      BY <1>2
    <2> QED BY <2>1, <1>2 DEF RegInv, StoredInv
  <1>5. ASSUME NEW c \in Clients
        PROVE  /\ to_client'[c] \in Seq(ServerMessages)
               /\ \/ to_client'[c] = to_client[c]
                  \/ \E id \in DOMAIN messages :
                         /\ server_id[c] = s
                         /\ conn_id[c] = id
                         /\ to_client'[c] = Append(to_client[c], messages[id])
    <2>1. CASE c \in receivers
      <3>1. to_client'[c] = Append(to_client[c], messages[id_of(c)])
        BY <1>1, <2>1
      <3>2. messages[id_of(c)] \in ServerMessages /\ id_of(c) \in DOMAIN messages
        BY <1>2, <2>1
      <3> QED BY <3>1, <3>2, <1>3, <1>4, <2>1
    <2>2. CASE c \notin receivers
      BY <1>1, <1>3, <2>2
    <2> QED BY <2>1, <2>2
  <1> QED BY <1>1, <1>5

\* The same for the invariants: what is added is known to its client.
LEMMA SendingKnown ==
    ASSUME RegInv, LinkTypeOK, StartInv, MessageInv, elected,
           NEW s \in Servers, NEW messages,
           DOMAIN messages \subseteq ClientIds,
           \A id \in DOMAIN messages :
               /\ messages[id] \in ServerMessages
               /\ messages[id] # StartSignal =>
                      \A c \in Clients : server_id[c] = s /\ conn_id[c] = id
                          => messages[id].id < Len(request_data[c]),
           send_to_clients(s, messages)
    PROVE  /\ to_client' \in [Clients -> Seq(ServerMessages)]
           /\ \A c \in Clients :
                  /\ to_client'[c] # <<>> => conn_id[c] # 0
                  /\ \A i \in 1 .. Len(to_client'[c]) :
                         to_client'[c][i] # StartSignal =>
                             to_client'[c][i].id < Len(request_data[c])
  <1>1. /\ to_client' \in [Clients -> Seq(ServerMessages)]
        /\ \A c \in Clients :
               \/ to_client'[c] = to_client[c]
               \/ \E id \in DOMAIN messages :
                      /\ server_id[c] = s
                      /\ conn_id[c] = id
                      /\ to_client'[c] = Append(to_client[c], messages[id])
    BY Sending
  <1>2. ASSUME NEW c \in Clients
        PROVE  /\ to_client'[c] # <<>> => conn_id[c] # 0
               /\ \A i \in 1 .. Len(to_client'[c]) :
                      to_client'[c][i] # StartSignal =>
                          to_client'[c][i].id < Len(request_data[c])
    <2>0. to_client[c] \in Seq(ServerMessages)
      BY DEF LinkTypeOK
    <2>1. CASE to_client'[c] = to_client[c]
      BY <2>1 DEF StartInv, MessageInv
    <2>2. ASSUME NEW id \in DOMAIN messages, server_id[c] = s, conn_id[c] = id,
                 to_client'[c] = Append(to_client[c], messages[id])
          PROVE  /\ to_client'[c] # <<>> => conn_id[c] # 0
                 /\ \A i \in 1 .. Len(to_client'[c]) :
                        to_client'[c][i] # StartSignal =>
                            to_client'[c][i].id < Len(request_data[c])
      <3>1. conn_id[c] # 0
        BY <2>2, ClientIdsType
      <3>2. ASSUME NEW i \in 1 .. Len(to_client'[c]), to_client'[c][i] # StartSignal
            PROVE  to_client'[c][i].id < Len(request_data[c])
        <4>1. CASE i \in 1 .. Len(to_client[c])
          <5>1. to_client'[c][i] = to_client[c][i]
            BY <2>0, <2>2, <4>1
          <5> QED BY <5>1, <3>2, <4>1 DEF MessageInv
        <4>2. CASE i = Len(to_client[c]) + 1
          <5>1. to_client'[c][i] = messages[id]
            BY <2>0, <2>2, <4>2
          <5> QED BY <5>1, <3>2, <2>2
        <4> QED BY <2>0, <2>2, <4>1, <4>2
      <3> QED BY <3>1, <3>2
    <2> QED BY <1>1, <2>1, <2>2
  <1> QED BY <1>1, <1>2

------------------------------------------------------------------------------
LEMMA ClusterInit == Init => ClusterInv
  <1> SUFFICES ASSUME Init PROVE ClusterInv
    OBVIOUS
  <1> USE DEF Init, NetInit, ServerInit, ClientInit
  <1>1. LinkTypeOK
    BY DEF LinkTypeOK
  <1>2. EmptyDatabase \in Databases
    BY DEF EmptyDatabase, Databases
  <1>3. ServerTypeOK
    <2>1. states \in Seq(Databases) /\ states # <<>>
      BY <1>2
    <2>2. /\ log \in Seq(Commands)
          /\ decided_commands \in [Servers -> Seq(Commands)]
      OBVIOUS
    <2> QED BY <1>2, <2>1, <2>2 DEF ServerTypeOK
  <1>4. ClientTypeOK
    BY DEF ClientTypeOK, ClientStages, NotSending
  <1>5. StartInv
    BY DEF StartInv
  <1>6. RequestInv
    BY DEF RequestInv
  <1>7. MessageInv
    BY DEF MessageInv
  <1>8. ReplicaInv
    BY DEF ReplicaInv, Applied
  <1> QED BY <1>1, <1>3, <1>4, <1>5, <1>6, <1>7, <1>8 DEF ClusterInv

(***************************************************************************)
(* Registration: ids that were given out stay, and new ones are new.       *)
(***************************************************************************)
RegFrame ==
    /\ UNCHANGED <<closed, breaks, start_signals, to_server, to_client,
                   serverVars, clientVars>>
    /\ connected \subseteq connected'
    /\ \A s \in Servers : max_client_id[s] <= max_client_id'[s]
    /\ \A c \in Clients :
           conn_id'[c] # conn_id[c] =>
               conn_id[c] = 0 /\ conn_id'[c] > max_client_id[server_id[c]]

LEMMA RegistrationFrame ==
    ASSUME RegInv, RegistrationStep, UNCHANGED <<serverVars, clientVars>>
    PROVE  RegFrame
  <1>0. max_client_id \in [Servers -> Nat] /\ conn_id \in [Clients -> ClientIds \cup {0}]
    BY DEF RegInv, RegistrationTypeOK
  <1>1. ASSUME /\ UNCHANGED <<closed, breaks, start_signals, to_server, to_client,
                                max_client_id, conn_id>>
               /\ connected \subseteq connected'
        PROVE  RegFrame
    <2>1. \A s \in Servers : max_client_id[s] <= max_client_id'[s]
      BY <1>0, <1>1
    <2>2. \A c \in Clients : conn_id'[c] = conn_id[c]
      BY <1>1
    <2> QED BY <1>1, <2>1, <2>2 DEF RegFrame
  <1>2. ASSUME NEW s \in Servers, spawn_connection_listener(s)
        PROVE  RegFrame
    BY <1>1, <1>2 DEF spawn_connection_listener
  <1>3. ASSUME NEW s \in Servers, initialize_connections(s)
        PROVE  RegFrame
    BY <1>1, <1>3 DEF initialize_connections
  <1>4. ASSUME NEW s \in Servers, NEW who \in Servers \cup Clients,
               drop_incoming_connection(s, who)
        PROVE  RegFrame
    BY <1>1, <1>4 DEF drop_incoming_connection
  <1>5. ASSUME NEW s \in Servers, NEW t \in Servers, spawn_peer_connectors(s, t)
        PROVE  RegFrame
    BY <1>1, <1>5 DEF spawn_peer_connectors, Connect
  <1>6. ASSUME NEW c \in Clients, get_server_connection(c)
        PROVE  RegFrame
    BY <1>1, <1>6 DEF get_server_connection, Connect
  <1>7. ASSUME NEW s \in Servers, NEW who \in Servers,
               handle_incoming_connection(s, who)
        PROVE  RegFrame
    BY <1>1, <1>7 DEF handle_incoming_connection
  <1>8. ASSUME NEW s \in Servers, NEW who \in Clients,
               handle_incoming_connection(s, who)
        PROVE  RegFrame
    <2>1. who \notin Servers
      BY NetworkAssumption DEF NetworkAssumption
    <2>2. /\ who \in handshakes[s]
          /\ max_client_id' = [max_client_id EXCEPT ![s] = max_client_id[s] + 1]
          /\ conn_id' = [conn_id EXCEPT ![who] = max_client_id'[s]]
          /\ UNCHANGED <<connected, closed, breaks, start_signals, to_server, to_client>>
      BY <1>8, <2>1 DEF handle_incoming_connection
    <2>3. server_id[who] = s /\ conn_id[who] = 0
      BY <2>2 DEF RegInv, HandshakeInv, HandshakeOK
    <2>4. max_client_id'[s] = max_client_id[s] + 1
      BY <2>2, <1>0
    <2>5. \A c \in Clients :
              conn_id'[c] # conn_id[c] =>
                  conn_id[c] = 0 /\ conn_id'[c] > max_client_id[server_id[c]]
      <3>1. ASSUME NEW c \in Clients, c # who
            PROVE  conn_id'[c] = conn_id[c]
        BY <3>1, <1>0, <2>2
      <3>2. conn_id'[who] = max_client_id[s] + 1
        BY <1>0, <2>2, <2>4
      <3>3. conn_id'[who] > max_client_id[server_id[who]]
        BY <1>0, <2>3, <3>2
      <3> SUFFICES ASSUME NEW c \in Clients, conn_id'[c] # conn_id[c]
                   PROVE  conn_id[c] = 0 /\ conn_id'[c] > max_client_id[server_id[c]]
        OBVIOUS
      <3>4. c = who
        BY <3>1
      <3> QED BY <2>3, <3>3, <3>4
    <2>6. \A u \in Servers : max_client_id[u] <= max_client_id'[u]
      BY <1>0, <2>2
    <2> QED BY <2>2, <2>5, <2>6 DEF RegFrame
  <1> QED BY <1>2, <1>3, <1>4, <1>5, <1>6, <1>7, <1>8 DEF RegistrationStep

LEMMA KnownInFrame ==
    ASSUME RegInv, RegInv', RegFrame, NEW cmd \in Commands, KnownCommand(cmd)
    PROVE  KnownCommand(cmd)'
  <1>0. /\ cmd.client_id \in Nat /\ cmd.client_id # 0
        /\ cmd.coordinator_id \in Servers
    BY ClientIdsType DEF Commands
  <1>1. \A s \in Servers : max_client_id[s] \in Nat /\ max_client_id'[s] \in Nat
    BY DEF RegInv, RegistrationTypeOK
  <1>2. ASSUME NEW c \in Clients, server_id[c] = cmd.coordinator_id,
               conn_id'[c] = cmd.client_id
        PROVE  conn_id[c] = cmd.client_id
    <2>1. conn_id'[c] > max_client_id[server_id[c]] => FALSE
      BY <1>0, <1>1, <1>2 DEF KnownCommand
    <2> QED BY <1>2, <2>1 DEF RegFrame
  <1>3. request_data' = request_data
    BY DEF RegFrame, clientVars
  <1>4. cmd.client_id <= max_client_id[cmd.coordinator_id]
    BY DEF KnownCommand
  <1>5. cmd.client_id <= max_client_id'[cmd.coordinator_id]
    <2>1. max_client_id[cmd.coordinator_id] <= max_client_id'[cmd.coordinator_id]
      BY <1>0 DEF RegFrame
    <2> QED BY <1>0, <1>1, <1>4, <2>1
  <1> QED BY <1>2, <1>3, <1>5 DEF KnownCommand

LEMMA ClusterRegStep ==
    ASSUME RegInv, RegInv', ClusterInv, RegFrame
    PROVE  ClusterInv'
  <1> USE DEF ClusterInv
  <1>0. /\ UNCHANGED <<closed, breaks, start_signals, to_server, to_client>>
        /\ UNCHANGED <<stage, database, current_decided_idx, decided_commands,
                       elected, proposed, log, states>>
        /\ UNCHANGED <<client_stage, sending, next_request_id, request_data,
                       response_count, final_request_count, results>>
        /\ connected \subseteq connected'
    BY DEF RegFrame, serverVars, localVars, libVars, clientVars
  <1>1. LinkTypeOK'
    BY <1>0 DEF LinkTypeOK
  <1>2. ServerTypeOK'
    BY <1>0 DEF ServerTypeOK
  <1>3. ClientTypeOK'
    BY <1>0 DEF ClientTypeOK
  <1>4. StartInv'
    <2>1. \A c \in Clients : conn_id[c] # 0 => conn_id'[c] # 0
      BY DEF RegFrame
    <2> QED BY <1>0, <2>1 DEF StartInv
  <1>5. RequestInv'
    BY <1>0 DEF RequestInv
  <1>6. MessageInv'
    <2>1. \A cmd \in proposed : KnownCommand(cmd)'
      BY KnownInFrame DEF MessageInv, ServerTypeOK
    <2>2. \A i \in 1 .. Len(log) : KnownCommand(log[i])'
      BY <1>0, KnownInFrame DEF MessageInv, ServerTypeOK
    <2> QED BY <1>0, <2>1, <2>2 DEF MessageInv
  <1>7. ReplicaInv'
    BY <1>0 DEF ReplicaInv, Applied
  <1> QED BY <1>1, <1>2, <1>3, <1>4, <1>5, <1>6, <1>7

------------------------------------------------------------------------------
(* Queues that lose messages.                                               *)

\* Every message of p is one of q.
Part(p, q) == \A i \in 1 .. Len(p) : \E j \in 1 .. Len(q) : p[i] = q[j]

LEMMA PartOfItself ==
    ASSUME NEW S, NEW q \in Seq(S)
    PROVE  Part(q, q) /\ Part(<<>>, q)
  BY DEF Part

LEMMA PartTail ==
    ASSUME NEW S, NEW q \in Seq(S), q # <<>>
    PROVE  Tail(q) \in Seq(S) /\ Part(Tail(q), q)
  <1>1. Tail(q) \in Seq(S) /\ Len(Tail(q)) = Len(q) - 1
    OBVIOUS
  <1>2. ASSUME NEW i \in 1 .. Len(Tail(q))
        PROVE  i + 1 \in 1 .. Len(q) /\ Tail(q)[i] = q[i + 1]
    BY <1>1
  <1> QED BY <1>1, <1>2 DEF Part

LEMMA PartPrefix ==
    ASSUME NEW S, NEW q \in Seq(S), NEW p \in Prefixes(q)
    PROVE  p \in Seq(S) /\ Part(p, q)
  <1>1. PICK n \in 0 .. Len(q) : p = SubSeq(q, 1, n)
    BY DEF Prefixes
  <1>2. p \in Seq(S) /\ Len(p) = n /\ \A i \in 1 .. n : p[i] = q[i]
    BY <1>1
  <1> QED BY <1>2 DEF Part

LEMMA PartNonEmpty ==
    ASSUME NEW S, NEW p \in Seq(S), NEW q \in Seq(S), Part(p, q), p # <<>>
    PROVE  q # <<>>
  <1>1. 1 \in 1 .. Len(p)
    OBVIOUS
  <1>2. PICK j \in 1 .. Len(q) : p[1] = q[j]
    BY <1>1 DEF Part
  <1> QED BY <1>2

\* On all client links messages are only lost or taken.
LinksShrink ==
    /\ to_server' \in [Clients -> Seq(ClientMessages)]
    /\ to_client' \in [Clients -> Seq(ServerMessages)]
    /\ \A c \in Clients :
           Part(to_server'[c], to_server[c]) /\ Part(to_client'[c], to_client[c])

\* One client's link shrinks.
LEMMA OneLinkShrinks ==
    ASSUME LinkTypeOK, NEW c \in Clients,
           NEW p \in Seq(ClientMessages), Part(p, to_server[c]),
           NEW q \in Seq(ServerMessages), Part(q, to_client[c]),
           to_server' = [to_server EXCEPT ![c] = p],
           to_client' = [to_client EXCEPT ![c] = q]
    PROVE  LinksShrink
  <1>1. /\ to_server \in [Clients -> Seq(ClientMessages)]
        /\ to_client \in [Clients -> Seq(ServerMessages)]
    BY DEF LinkTypeOK
  <1>2. /\ to_server' \in [Clients -> Seq(ClientMessages)]
        /\ to_client' \in [Clients -> Seq(ServerMessages)]
    BY <1>1
  <1>3. ASSUME NEW d \in Clients
        PROVE  Part(to_server'[d], to_server[d]) /\ Part(to_client'[d], to_client[d])
    <2>1. CASE d = c
      BY <2>1, <1>1
    <2>2. CASE d # c
      <3>1. to_server'[d] = to_server[d] /\ to_client'[d] = to_client[d]
        BY <2>2, <1>1
      <3> QED BY <3>1, <1>1, PartOfItself
    <2> QED BY <2>1, <2>2
  <1> QED BY <1>2, <1>3 DEF LinksShrink

LEMMA LinksUnchanged ==
    ASSUME LinkTypeOK, UNCHANGED <<to_server, to_client>>
    PROVE  LinksShrink
  <1>1. /\ to_server \in [Clients -> Seq(ClientMessages)]
        /\ to_client \in [Clients -> Seq(ServerMessages)]
    BY DEF LinkTypeOK
  <1> QED BY <1>1, PartOfItself DEF LinksShrink

\* What StartInv and MessageInv say of a client's link.
LinkKnown(c) ==
    /\ to_client[c] # <<>> \/ to_server[c] # <<>> => conn_id[c] # 0 /\ elected
    /\ \A i \in 1 .. Len(to_server[c]) : to_server[c][i].id < Len(request_data[c])
    /\ \A i \in 1 .. Len(to_client[c]) :
           to_client[c][i] # StartSignal => to_client[c][i].id < Len(request_data[c])

\* It is kept when the links shrink and no recorded request is forgotten.
LEMMA ShrunkLinks ==
    ASSUME LinkTypeOK, ClientTypeOK, StartInv, MessageInv, LinksShrink,
           ClientTypeOK', UNCHANGED <<conn_id, elected>>,
           \A c \in Clients : Len(request_data[c]) <= Len(request_data'[c])
    PROVE  \A c \in Clients : LinkKnown(c)'
  <1> SUFFICES ASSUME NEW c \in Clients
               PROVE  LinkKnown(c)'
    OBVIOUS
  <1>0. /\ to_server[c] \in Seq(ClientMessages) /\ to_server'[c] \in Seq(ClientMessages)
        /\ to_client[c] \in Seq(ServerMessages) /\ to_client'[c] \in Seq(ServerMessages)
        /\ Part(to_server'[c], to_server[c]) /\ Part(to_client'[c], to_client[c])
        /\ Len(request_data[c]) \in Nat /\ Len(request_data'[c]) \in Nat
        /\ Len(request_data[c]) <= Len(request_data'[c])
    BY DEF LinkTypeOK, LinksShrink, ClientTypeOK
  <1>1. to_client'[c] # <<>> => to_client[c] # <<>>
    BY <1>0, PartNonEmpty
  <1>2. to_server'[c] # <<>> => to_server[c] # <<>>
    BY <1>0, PartNonEmpty
  <1>3. ASSUME NEW i \in 1 .. Len(to_server'[c])
        PROVE  to_server'[c][i].id < Len(request_data'[c])
    <2>1. PICK j \in 1 .. Len(to_server[c]) : to_server'[c][i] = to_server[c][j]
      BY <1>0 DEF Part
    <2>2. to_server[c][j].id < Len(request_data[c])
      BY DEF MessageInv
    <2>3. to_server[c][j] \in ClientMessages
      BY <1>0
    <2>4. to_server[c][j].id \in Nat
      BY <2>3 DEF ClientMessages
    <2> QED BY <2>1, <2>2, <2>4, <1>0
  <1>4. ASSUME NEW i \in 1 .. Len(to_client'[c]), to_client'[c][i] # StartSignal
        PROVE  to_client'[c][i].id < Len(request_data'[c])
    <2>1. PICK j \in 1 .. Len(to_client[c]) : to_client'[c][i] = to_client[c][j]
      BY <1>0 DEF Part
    <2>2. to_client[c][j].id < Len(request_data[c])
      BY <1>4, <2>1 DEF MessageInv
    <2>3. to_client[c][j] \in ServerMessages
      BY <1>0
    <2>4. to_client[c][j].id \in Nat
      BY <1>4, <2>1, <2>3 DEF ServerMessages
    <2> QED BY <2>1, <2>2, <2>4, <1>0
  <1> QED BY <1>1, <1>2, <1>3, <1>4 DEF StartInv, LinkKnown

LEMMA KnownGrows ==
    ASSUME UNCHANGED <<max_client_id, conn_id>>, ClientTypeOK, ClientTypeOK',
           \A c \in Clients : Len(request_data[c]) <= Len(request_data'[c]),
           NEW cmd \in Commands, KnownCommand(cmd)
    PROVE  KnownCommand(cmd)'
  <1>0. cmd.id \in Nat
    BY DEF Commands
  <1>1. ASSUME NEW c \in Clients, cmd.id < Len(request_data[c])
        PROVE  cmd.id < Len(request_data'[c])
    <2>1. /\ Len(request_data[c]) \in Nat /\ Len(request_data'[c]) \in Nat
          /\ Len(request_data[c]) <= Len(request_data'[c])
      BY DEF ClientTypeOK
    <2> QED BY <1>0, <1>1, <2>1
  <1> QED BY <1>1 DEF KnownCommand

------------------------------------------------------------------------------
(* The steps of clients, and connections that break.                        *)

ClientFrame ==
    /\ UNCHANGED <<registrationVars, serverVars>>
    /\ start_signals' \subseteq start_signals
    /\ breaks' \in Nat
    /\ closed' \subseteq connected
    /\ to_server' \in [Clients -> Seq(ClientMessages)]
    /\ to_client' \in [Clients -> Seq(ServerMessages)]
    /\ ClientTypeOK'
    /\ RequestInv'
    /\ \A c \in Clients :
           /\ LinkKnown(c)'
           /\ Len(request_data[c]) <= Len(request_data'[c])
           /\ client_stage'[c] # "waiting" => conn_id[c] # 0 /\ elected
           /\ client_stage'[c] # "panicked"

LEMMA ClientFrameStep ==
    ASSUME ClusterInv, ClientFrame
    PROVE  ClusterInv'
  <1> USE DEF ClusterInv
  <1>0. /\ UNCHANGED <<connected, conn_id, max_client_id>>
        /\ UNCHANGED <<stage, database, current_decided_idx, decided_commands,
                       elected, proposed, log, states>>
    BY DEF ClientFrame, registrationVars, serverVars, localVars, libVars
  <1>1. LinkTypeOK'
    BY <1>0 DEF LinkTypeOK, ClientFrame
  <1>2. ServerTypeOK'
    BY <1>0 DEF ServerTypeOK
  <1>3. ClientTypeOK' /\ RequestInv'
    BY DEF ClientFrame
  <1>4. StartInv'
    BY <1>0 DEF StartInv, ClientFrame, LinkKnown
  <1>5. MessageInv'
    <2>1. ASSUME NEW cmd \in Commands, KnownCommand(cmd)
          PROVE  KnownCommand(cmd)'
      BY <1>0, <1>3, <2>1, KnownGrows DEF ClientFrame
    <2>2. \A cmd \in proposed : KnownCommand(cmd)'
      BY <2>1 DEF MessageInv, ServerTypeOK
    <2>3. \A i \in 1 .. Len(log) : KnownCommand(log[i])'
      BY <1>0, <2>1 DEF MessageInv, ServerTypeOK
    <2> QED BY <1>0, <2>2, <2>3 DEF MessageInv, ClientFrame, LinkKnown
  <1>6. ReplicaInv'
    BY <1>0 DEF ReplicaInv, Applied
  <1> QED BY <1>1, <1>2, <1>3, <1>4, <1>5, <1>6

LEMMA BreakStep ==
    ASSUME RegInv, ClusterInv, Break, UNCHANGED <<serverVars, clientVars>>
    PROVE  ClusterInv'
  <1> USE DEF ClusterInv
  <1>0. /\ UNCHANGED <<client_stage, sending, next_request_id, request_data,
                       response_count, final_request_count, results, elected>>
    BY DEF clientVars, serverVars, libVars
  <1>1. /\ UNCHANGED registrationVars
        /\ start_signals' \subseteq start_signals
        /\ breaks' = breaks + 1
        /\ closed' \subseteq connected
        /\ LinksShrink
    <2>1. ASSUME NEW s \in Servers, NEW t \in Servers, BreakPeer(s, t)
          PROVE  /\ UNCHANGED registrationVars
                 /\ start_signals' \subseteq start_signals
                 /\ breaks' = breaks + 1
                 /\ closed' \subseteq connected
                 /\ LinksShrink
      BY <2>1, LinksUnchanged DEF BreakPeer, LinkTypeOK
    <2>2. ASSUME NEW c \in Clients, BreakClient(c)
          PROVE  /\ UNCHANGED registrationVars
                 /\ start_signals' \subseteq start_signals
                 /\ breaks' = breaks + 1
                 /\ closed' \subseteq connected
                 /\ LinksShrink
      <3>1. PICK p \in Prefixes(to_server[c]) : to_server' = [to_server EXCEPT ![c] = p]
        BY <2>2 DEF BreakClient
      <3>2. PICK q \in Prefixes(to_client[c]) : to_client' = [to_client EXCEPT ![c] = q]
        BY <2>2 DEF BreakClient
      <3>3. to_server[c] \in Seq(ClientMessages) /\ to_client[c] \in Seq(ServerMessages)
        BY DEF LinkTypeOK
      <3>4. p \in Seq(ClientMessages) /\ Part(p, to_server[c])
        BY <3>3, PartPrefix
      <3>5. q \in Seq(ServerMessages) /\ Part(q, to_client[c])
        BY <3>3, PartPrefix
      <3>6. LinksShrink
        BY <3>1, <3>2, <3>4, <3>5, OneLinkShrinks
      <3> QED BY <2>2, <3>6 DEF BreakClient, LinkTypeOK
    <2> QED BY <2>1, <2>2 DEF Break
  <1>2. ClientTypeOK' /\ RequestInv'
    BY <1>0 DEF ClientTypeOK, RequestInv
  <1>3. \A c \in Clients : Len(request_data[c]) <= Len(request_data'[c])
    BY <1>0 DEF ClientTypeOK
  <1>4. \A c \in Clients : LinkKnown(c)'
    BY <1>0, <1>1, <1>2, <1>3, ShrunkLinks DEF registrationVars
  <1>5. ClientFrame
    BY <1>0, <1>1, <1>2, <1>3, <1>4
    DEF ClientFrame, LinksShrink, LinkTypeOK, StartInv, MessageInv
  <1> QED BY <1>5, ClientFrameStep

\* A client takes its next message, or shuts its link down.
LEMMA TakeMessage ==
    ASSUME LinkTypeOK, NEW c \in Clients, to_client[c] # <<>>,
           to_client' = [to_client EXCEPT ![c] = Tail(@)],
           UNCHANGED to_server
    PROVE  LinksShrink
  <1>1. /\ to_server \in [Clients -> Seq(ClientMessages)]
        /\ to_client \in [Clients -> Seq(ServerMessages)]
    BY DEF LinkTypeOK
  <1>2. /\ Tail(to_client[c]) \in Seq(ServerMessages)
        /\ Part(Tail(to_client[c]), to_client[c])
    BY <1>1, PartTail
  <1>3. Part(to_server[c], to_server[c])
    BY <1>1, PartOfItself
  <1>4. to_server' = [to_server EXCEPT ![c] = to_server[c]]
    BY <1>1
  <1>5. PICK q \in Seq(ServerMessages) : q = Tail(to_client[c])
    BY <1>2
  <1>6. PICK p \in Seq(ClientMessages) : p = to_server[c]
    BY <1>1
  <1> QED BY <1>2, <1>3, <1>4, <1>5, <1>6, OneLinkShrinks

LEMMA Shutdown ==
    ASSUME RegInv, LinkTypeOK, NEW c \in Clients, conn_id[c] # 0, shutdown(c)
    PROVE  LinksShrink /\ closed' \subseteq connected
  <1>1. /\ to_server[c] \in Seq(ClientMessages)
        /\ to_client[c] \in Seq(ServerMessages)
    BY DEF LinkTypeOK
  <1>2. PICK p \in Prefixes(to_server[c]) : to_server' = [to_server EXCEPT ![c] = p]
    BY DEF shutdown
  <1>3. p \in Seq(ClientMessages) /\ Part(p, to_server[c])
    BY <1>1, PartPrefix
  <1>4. PICK q \in Seq(ServerMessages) : q = <<>>
    <2>1. <<>> \in Seq(ServerMessages)
      OBVIOUS
    <2> QED BY <2>1
  <1>5. Part(q, to_client[c])
    BY <1>1, <1>4, PartOfItself
  <1>6. to_client' = [to_client EXCEPT ![c] = q]
    BY <1>4 DEF shutdown
  <1>7. LinksShrink
    BY <1>2, <1>3, <1>5, <1>6, OneLinkShrinks
  <1>8. ClientLink(c) \in connected
    BY DEF RegInv, IdInv
  <1> QED BY <1>7, <1>8 DEF shutdown, LinkTypeOK

LEMMA StartSignalStep ==
    ASSUME RegInv, ClusterInv, NEW c \in Clients, wait_for_start_signal(c),
           UNCHANGED serverVars
    PROVE  ClusterInv'
  <1> USE DEF ClusterInv
  <1>1. client_stage[c] = "waiting" /\ to_client[c] # <<>>
    BY DEF wait_for_start_signal
  <1>2. Head(to_client[c]) = StartSignal
    <2>1. to_client[c] \in Seq(ServerMessages)
      BY DEF LinkTypeOK
    <2>2. 1 \in 1 .. Len(to_client[c]) /\ Head(to_client[c]) = to_client[c][1]
      BY <1>1, <2>1
    <2>3. request_data[c] = <<>>
      BY <1>1 DEF RequestInv
    <2>4. to_client[c][1] \in ServerMessages
      BY <2>1, <2>2
    <2>5. to_client[c][1] # StartSignal => to_client[c][1].id \in Nat
      BY <2>4 DEF ServerMessages
    <2>6. to_client[c][1] # StartSignal => to_client[c][1].id < Len(request_data[c])
      BY <2>2 DEF MessageInv
    <2> QED BY <2>2, <2>3, <2>5, <2>6
  <1>3. /\ to_client' = [to_client EXCEPT ![c] = Tail(@)]
        /\ client_stage' = [client_stage EXCEPT ![c] = "running"]
        /\ UNCHANGED <<closed, registrationVars, breaks, start_signals, to_server>>
        /\ UNCHANGED <<sending, next_request_id, request_data, response_count,
                       final_request_count, results>>
    BY <1>2 DEF wait_for_start_signal
  <1>4. LinksShrink
    BY <1>1, <1>3, TakeMessage
  <1>5. ClientTypeOK'
    BY <1>3 DEF ClientTypeOK, ClientStages
  <1>6. RequestInv'
    BY <1>3 DEF RequestInv, ClientTypeOK
  <1>7. \A d \in Clients : Len(request_data[d]) <= Len(request_data'[d])
    BY <1>3 DEF ClientTypeOK
  <1>8. \A d \in Clients : LinkKnown(d)'
    BY <1>3, <1>4, <1>5, <1>7, ShrunkLinks
    DEF registrationVars, serverVars, libVars
  <1>9. \A d \in Clients :
           /\ client_stage'[d] # "waiting" => conn_id[d] # 0 /\ elected
           /\ client_stage'[d] # "panicked"
    BY <1>1, <1>3 DEF StartInv, MessageInv, ClientTypeOK
  <1>10. ClientFrame
    BY <1>3, <1>4, <1>5, <1>6, <1>7, <1>8, <1>9 DEF ClientFrame, LinksShrink, LinkTypeOK
  <1> QED BY <1>10, ClientFrameStep

LEMMA ResponseStep ==
    ASSUME RegInv, ClusterInv, NEW c \in Clients, handle_server_message(c),
           UNCHANGED serverVars
    PROVE  ClusterInv'
  <1> USE DEF ClusterInv
  <1> DEFINE msg == Head(to_client[c])
  <1>1. client_stage[c] = "running" /\ to_client[c] # <<>>
    BY DEF handle_server_message, Idle
  <1>2. conn_id[c] # 0 /\ elected
    BY <1>1 DEF StartInv
  <1>3. /\ msg \in ServerMessages
        /\ msg # StartSignal => /\ msg.id \in Nat
                                /\ msg.id + 1 \in DOMAIN request_data[c]
    <2>1. to_client[c] \in Seq(ServerMessages)
      BY DEF LinkTypeOK
    <2>2. 1 \in 1 .. Len(to_client[c]) /\ msg = to_client[c][1]
      BY <1>1, <2>1
    <2>3. msg \in ServerMessages
      BY <2>1, <2>2
    <2>4. msg # StartSignal => msg.id \in Nat
      BY <2>3 DEF ServerMessages
    <2>5. msg # StartSignal => msg.id < Len(request_data[c])
      BY <2>2 DEF MessageInv
    <2>6. request_data[c] \in Seq(RequestData)
      BY DEF ClientTypeOK
    <2> QED BY <2>3, <2>4, <2>5, <2>6
  <1>4. /\ UNCHANGED <<registrationVars, breaks, start_signals>>
        /\ UNCHANGED <<sending, next_request_id, final_request_count>>
    BY DEF handle_server_message
  <1>5. /\ \/ UNCHANGED <<request_data, response_count, results>>
           \/ /\ msg # StartSignal
              /\ request_data' =
                     [request_data EXCEPT ![c][msg.id + 1].answered = TRUE]
              /\ response_count' = [response_count EXCEPT ![c] = @ + 1]
              /\ results' = results \cup {[client |-> c, response |-> msg]}
        /\ \/ /\ client_stage' = [client_stage EXCEPT ![c] = "finished"]
              /\ shutdown(c)
           \/ /\ to_client' = [to_client EXCEPT ![c] = Tail(@)]
              /\ UNCHANGED <<client_stage, closed, to_server>>
    BY <1>3 DEF handle_server_message
  <1>6. LinksShrink /\ closed' \subseteq connected
    <2>1. CASE shutdown(c)
      BY <2>1, <1>2, Shutdown
    <2>2. CASE /\ to_client' = [to_client EXCEPT ![c] = Tail(@)]
               /\ UNCHANGED <<client_stage, closed, to_server>>
      BY <2>2, <1>1, TakeMessage DEF LinkTypeOK
    <2> QED BY <1>5, <2>1, <2>2
  <1>7. /\ client_stage' \in [Clients -> ClientStages]
        /\ \A d \in Clients :
               /\ client_stage'[d] = "waiting" <=> client_stage[d] = "waiting"
               /\ client_stage'[d] # "panicked"
    BY <1>1, <1>5 DEF ClientTypeOK, ClientStages, MessageInv
  <1>8. /\ request_data' \in [Clients -> Seq(RequestData)]
        /\ \A d \in Clients : Len(request_data'[d]) = Len(request_data[d])
    <2>0. request_data \in [Clients -> Seq(RequestData)]
      BY DEF ClientTypeOK
    <2>1. CASE UNCHANGED request_data
      BY <2>0, <2>1
    <2>2. CASE /\ msg # StartSignal
               /\ request_data' = [request_data EXCEPT ![c][msg.id + 1].answered = TRUE]
      <3> DEFINE i == msg.id + 1
                 r == [request_data[c][i] EXCEPT !.answered = TRUE]
                 q == [request_data[c] EXCEPT ![i] = r]
      <3>1. i \in DOMAIN request_data[c] /\ request_data[c] \in Seq(RequestData)
        BY <1>3, <2>0, <2>2
      <3>2. request_data[c][i] \in RequestData
        BY <3>1
      <3>3. r \in RequestData
        BY <3>2 DEF RequestData
      <3>4. request_data' = [request_data EXCEPT ![c] = q]
        BY <2>2
      <3> HIDE DEF r, i
      <3>5. q \in Seq(RequestData) /\ Len(q) = Len(request_data[c])
        BY <3>1, <3>3
      <3> HIDE DEF q
      <3> QED BY <3>4, <3>5, <2>0
    <2> QED BY <1>5, <2>1, <2>2
  <1> HIDE DEF msg
  <1>9. ClientTypeOK'
    BY <1>3, <1>4, <1>5, <1>7, <1>8 DEF ClientTypeOK
  <1>10. RequestInv'
    <2>1. \A d \in Clients : request_data[d] = <<>> => request_data'[d] = <<>>
      BY <1>8 DEF ClientTypeOK
    <2> QED BY <1>4, <1>7, <1>8, <2>1 DEF RequestInv
  <1>11. \A d \in Clients : Len(request_data[d]) <= Len(request_data'[d])
    BY <1>8 DEF ClientTypeOK
  <1>12. \A d \in Clients : LinkKnown(d)'
    BY <1>4, <1>6, <1>9, <1>11, ShrunkLinks DEF registrationVars, serverVars, libVars
  <1>13. ClientFrame
    BY <1>4, <1>6, <1>7, <1>9, <1>10, <1>11, <1>12
    DEF ClientFrame, LinksShrink, LinkTypeOK, StartInv
  <1> QED BY <1>13, ClientFrameStep

\* The bound on all requests is a bound on those of one client.
LEMMA RequestsBound ==
    ASSUME ClientTypeOK, NEW c \in Clients, Cardinality(Requests) < MaxRequests
    PROVE  Len(request_data[c]) < MaxRequests
  <1> DEFINE n(d) == Len(request_data[d]) + IF sending[d] = NotSending THEN 0 ELSE 1
             R(d) == {<<d, i>> : i \in 1 .. n(d)}
             f == [i \in 1 .. n(c) |-> <<c, i>>]
  <1>1. \A d \in Clients : n(d) \in Nat /\ n(d) >= Len(request_data[d])
    BY DEF ClientTypeOK
  <1>2. Requests = UNION {R(d) : d \in Clients}
    BY DEF Requests
  <1> HIDE DEF n
  <1>3. ASSUME NEW d \in Clients
        PROVE  IsFiniteSet(R(d))
    <2> DEFINE g == [i \in 1 .. n(d) |-> <<d, i>>]
    <2>1. IsFiniteSet(1 .. n(d))
      BY <1>1, FS_Interval
    <2>2. g \in Surjection(1 .. n(d), R(d))
      BY DEF Surjection
    <2> QED BY <2>1, <2>2, FS_Surjection
  <1>4. IsFiniteSet({R(d) : d \in Clients})
    <2> DEFINE h == [d \in Clients |-> R(d)]
    <2> HIDE DEF R
    <2>1. h \in Surjection(Clients, {R(d) : d \in Clients})
      BY DEF Surjection
    <2> QED BY <2>1, FS_Surjection, NetworkAssumption DEF NetworkAssumption
  <1>5. IsFiniteSet(Requests)
    <2>1. \A T \in {R(d) : d \in Clients} : IsFiniteSet(T)
      BY <1>3
    <2> QED BY <1>2, <1>4, <2>1, FS_UNION
  <1>6. f \in Injection(1 .. n(c), Requests)
    BY <1>2 DEF Injection, IsInjective
  <1>7. Cardinality(1 .. n(c)) <= Cardinality(Requests)
    BY <1>5, <1>6, FS_Injection
  <1>8. Cardinality(1 .. n(c)) = n(c)
    BY <1>1, FS_Interval
  <1>9. Cardinality(Requests) \in Nat /\ MaxRequests \in Nat /\ Len(request_data[c]) \in Nat
    BY <1>5, FS_CardinalityType, ClientAssumption DEF ClientAssumption, ClientTypeOK
  <1> QED BY <1>1, <1>7, <1>8, <1>9

LEMMA RequestTickStep ==
    ASSUME RegInv, ClusterInv, NEW c \in Clients, NEW is_write \in BOOLEAN,
           request_tick(c, is_write), UNCHANGED serverVars
    PROVE  ClusterInv'
  <1> USE DEF ClusterInv
  <1>1. /\ client_stage[c] = "running"
        /\ Cardinality(Requests) < MaxRequests
        /\ \E kind \in {"write", "read"} : sending' = [sending EXCEPT ![c] = kind]
        /\ UNCHANGED <<registrationVars, breaks, start_signals, closed, to_server, to_client>>
        /\ UNCHANGED <<client_stage, next_request_id, request_data, response_count,
                       final_request_count, results>>
    BY DEF request_tick, Idle, netVars
  <1>2. ClientTypeOK'
    BY <1>1 DEF ClientTypeOK
  <1>3. Len(request_data[c]) < MaxRequests
    BY <1>1, RequestsBound
  <1>4. \A d \in Clients \ {c} : sending'[d] = sending[d]
    BY <1>1 DEF ClientTypeOK
  <1>5. RequestInv'
    BY <1>1, <1>3, <1>4 DEF RequestInv
  <1>6. LinksShrink
    BY <1>1, LinksUnchanged
  <1>7. \A d \in Clients : Len(request_data[d]) <= Len(request_data'[d])
    BY <1>1 DEF ClientTypeOK
  <1>8. \A d \in Clients : LinkKnown(d)'
    BY <1>1, <1>6, <1>2, <1>7, ShrunkLinks DEF registrationVars, serverVars, libVars
  <1>9. ClientFrame
    BY <1>1, <1>2, <1>5, <1>6, <1>7, <1>8
    DEF ClientFrame, LinksShrink, LinkTypeOK, StartInv, MessageInv
  <1> QED BY <1>9, ClientFrameStep

LEMMA IntervalEndStep ==
    ASSUME RegInv, ClusterInv, NEW c \in Clients, next_interval_ends(c),
           UNCHANGED serverVars
    PROVE  ClusterInv'
  <1> USE DEF ClusterInv
  <1>1. /\ client_stage[c] = "running"
        /\ final_request_count' =
               [final_request_count EXCEPT ![c] = Len(request_data[c])]
        /\ \/ /\ client_stage' = [client_stage EXCEPT ![c] = "finished"]
              /\ shutdown(c)
           \/ UNCHANGED <<client_stage, closed, to_server, to_client>>
        /\ UNCHANGED <<registrationVars, breaks, start_signals>>
        /\ UNCHANGED <<sending, next_request_id, request_data, response_count, results>>
    BY DEF next_interval_ends, Idle
  <1>2. conn_id[c] # 0 /\ elected
    BY <1>1 DEF StartInv
  <1>3. LinksShrink /\ closed' \subseteq connected
    BY <1>1, <1>2, Shutdown, LinksUnchanged DEF LinkTypeOK
  <1>4. /\ client_stage' \in [Clients -> ClientStages]
        /\ \A d \in Clients :
               /\ client_stage'[d] = "waiting" <=> client_stage[d] = "waiting"
               /\ client_stage'[d] # "panicked"
    BY <1>1 DEF ClientTypeOK, ClientStages, MessageInv
  <1>5. ClientTypeOK'
    <2>1. Len(request_data[c]) \in Nat
      BY DEF ClientTypeOK
    <2>2. final_request_count' \in [Clients -> Nat \cup {None}]
      BY <1>1, <2>1 DEF ClientTypeOK
    <2> QED BY <1>1, <1>4, <2>2 DEF ClientTypeOK
  <1>6. RequestInv'
    BY <1>1, <1>4 DEF RequestInv
  <1>7. \A d \in Clients : Len(request_data[d]) <= Len(request_data'[d])
    BY <1>1 DEF ClientTypeOK
  <1>8. \A d \in Clients : LinkKnown(d)'
    BY <1>1, <1>3, <1>5, <1>7, ShrunkLinks DEF registrationVars, serverVars, libVars
  <1>9. ClientFrame
    BY <1>1, <1>3, <1>4, <1>5, <1>6, <1>7, <1>8
    DEF ClientFrame, LinksShrink, LinkTypeOK, StartInv
  <1> QED BY <1>9, ClientFrameStep

LEMMA SendRequestStep ==
    ASSUME RegInv, ClusterInv, NEW c \in Clients, send_request(c),
           UNCHANGED serverVars
    PROVE  ClusterInv'
  <1> USE DEF ClusterInv
  <1>1. /\ client_stage[c] = "running"
        /\ sending[c] # NotSending
        /\ \/ to_server' = [to_server EXCEPT ![c] = Append(@, request(c))]
           \/ to_server' = to_server
        /\ request_data' = [request_data EXCEPT ![c] =
               Append(@, [write |-> sending[c] = "write", answered |-> FALSE])]
        /\ next_request_id' = [next_request_id EXCEPT ![c] = @ + 1]
        /\ sending' = [sending EXCEPT ![c] = NotSending]
        /\ UNCHANGED <<registrationVars, closed, breaks, start_signals, to_client>>
        /\ UNCHANGED <<client_stage, response_count, final_request_count, results>>
    <2>1. to_server = [to_server EXCEPT ![c] = @]
      BY DEF LinkTypeOK
    <2> QED BY <2>1 DEF send_request, send
  <1>2. conn_id[c] # 0 /\ elected
    BY <1>1 DEF StartInv
  <1>3. /\ next_request_id[c] = Len(request_data[c])
        /\ next_request_id[c] \in Nat
        /\ next_request_id[c] \in Keys /\ next_request_id[c] \in Values
    <2>1. /\ next_request_id[c] = Len(request_data[c])
          /\ Len(request_data[c]) < MaxRequests
          /\ Len(request_data[c]) \in Nat
      BY <1>1 DEF RequestInv, ClientTypeOK
    <2>2. MaxRequests \in Nat /\ 0 .. MaxRequests - 1 \subseteq Keys \cap Values
      BY ClientAssumption DEF ClientAssumption
    <2>3. Len(request_data[c]) \in 0 .. MaxRequests - 1
      BY <2>1, <2>2
    <2> QED BY <2>1, <2>2, <2>3
  <1>4. /\ request(c) \in ClientMessages
        /\ request(c).id = Len(request_data[c])
    BY <1>3 DEF request, ClientMessages, KVCommand, Put, Get
  <1>5. /\ request_data' \in [Clients -> Seq(RequestData)]
        /\ Len(request_data'[c]) = Len(request_data[c]) + 1
        /\ \A d \in Clients \ {c} : request_data'[d] = request_data[d]
    <2>1. [write |-> sending[c] = "write", answered |-> FALSE] \in RequestData
      BY DEF RequestData
    <2> QED BY <1>1, <2>1 DEF ClientTypeOK
  <1>6. \A d \in Clients :
           /\ Len(request_data[d]) \in Nat
           /\ Len(request_data'[d]) \in Nat
           /\ Len(request_data[d]) <= Len(request_data'[d])
    <2> SUFFICES ASSUME NEW d \in Clients
                 PROVE  /\ Len(request_data[d]) \in Nat
                        /\ Len(request_data'[d]) \in Nat
                        /\ Len(request_data[d]) <= Len(request_data'[d])
      OBVIOUS
    <2>1. request_data[d] \in Seq(RequestData) /\ request_data'[d] \in Seq(RequestData)
      BY <1>5 DEF ClientTypeOK
    <2>2. Len(request_data[d]) \in Nat /\ Len(request_data'[d]) \in Nat
      BY <2>1
    <2> QED BY <2>2, <1>5
  <1>7. ClientTypeOK'
    BY <1>1, <1>5 DEF ClientTypeOK
  <1>8. RequestInv'
    <2> SUFFICES ASSUME NEW d \in Clients
                 PROVE /\ next_request_id'[d] = Len(request_data'[d])
                       /\ sending'[d] # NotSending => Len(request_data'[d]) < MaxRequests
                       /\ client_stage'[d] = "waiting" =>
                              request_data'[d] = <<>> /\ sending'[d] = NotSending
      BY DEF RequestInv
    <2>1. CASE d = c
      BY <2>1, <1>1, <1>3, <1>5 DEF ClientTypeOK
    <2>2. CASE d # c
      BY <2>2, <1>1, <1>5 DEF ClientTypeOK, RequestInv
    <2> QED BY <2>1, <2>2
  <1>9. to_server' \in [Clients -> Seq(ClientMessages)]
    <2>1. to_server \in [Clients -> Seq(ClientMessages)]
      BY DEF LinkTypeOK
    <2>2. Append(to_server[c], request(c)) \in Seq(ClientMessages)
      BY <2>1, <1>4
    <2> QED BY <1>1, <2>1, <2>2
  <1>10. ASSUME NEW d \in Clients
         PROVE  LinkKnown(d)'
    <2>0. /\ to_server[d] \in Seq(ClientMessages)
          /\ to_client[d] \in Seq(ServerMessages)
          /\ UNCHANGED <<conn_id, elected>>
      BY <1>1 DEF LinkTypeOK, registrationVars, serverVars, libVars
    <2>1. to_client'[d] # <<>> \/ to_server'[d] # <<>> => conn_id'[d] # 0 /\ elected'
      BY <1>1, <1>2, <2>0 DEF StartInv, LinkTypeOK
    <2>2. ASSUME NEW i \in 1 .. Len(to_server'[d])
          PROVE  to_server'[d][i].id < Len(request_data'[d])
      <3>1. CASE i \in 1 .. Len(to_server[d]) /\ to_server'[d][i] = to_server[d][i]
        <4>1. to_server[d][i].id < Len(request_data[d])
          BY <3>1 DEF MessageInv
        <4>2. to_server[d][i] \in ClientMessages
          BY <3>1, <2>0
        <4>3. to_server[d][i].id \in Nat
          BY <4>2 DEF ClientMessages
        <4> QED BY <3>1, <4>1, <4>3, <1>6
      <3>2. CASE d = c /\ to_server'[d][i] = request(c)
        BY <3>2, <1>4, <1>5, <1>6
      <3>3. \/ i \in 1 .. Len(to_server[d]) /\ to_server'[d][i] = to_server[d][i]
            \/ d = c /\ to_server'[d][i] = request(c)
        <4>1. CASE to_server'[d] = to_server[d]
          BY <4>1
        <4>2. CASE d = c /\ to_server'[d] = Append(to_server[d], request(c))
          BY <4>2, <2>0
        <4> QED BY <4>1, <4>2, <1>1 DEF LinkTypeOK
      <3> QED BY <3>1, <3>2, <3>3
    <2>3. ASSUME NEW i \in 1 .. Len(to_client'[d]), to_client'[d][i] # StartSignal
          PROVE  to_client'[d][i].id < Len(request_data'[d])
      <3>1. to_client'[d] = to_client[d]
        BY <1>1
      <3>2. to_client[d][i].id < Len(request_data[d])
        BY <2>3, <3>1 DEF MessageInv
      <3>3. to_client[d][i] \in ServerMessages
        BY <2>0, <3>1
      <3>4. to_client[d][i].id \in Nat
        BY <2>3, <3>1, <3>3 DEF ServerMessages
      <3> QED BY <3>1, <3>2, <3>4, <1>6
    <2> QED BY <2>1, <2>2, <2>3 DEF LinkKnown
  <1>11. ClientFrame
    BY <1>1, <1>6, <1>7, <1>8, <1>9, <1>10
    DEF ClientFrame, LinkTypeOK, StartInv, MessageInv
  <1> QED BY <1>11, ClientFrameStep

LEMMA ClusterClientStep ==
    ASSUME RegInv, ClusterInv, NEW c \in Clients, ClientStep(c), UNCHANGED serverVars
    PROVE  ClusterInv'
  BY StartSignalStep, ResponseStep, RequestTickStep, SendRequestStep, IntervalEndStep
  DEF ClientStep

------------------------------------------------------------------------------
(* OmniPaxos and the steps of servers.                                      *)

\* A step of OmniPaxos or a server leaves the clients alone.
LEMMA ClientsAlone ==
    ASSUME ClusterInv, UNCHANGED clientVars
    PROVE  /\ UNCHANGED <<client_stage, sending, next_request_id, request_data,
                          response_count, final_request_count, results>>
           /\ ClientTypeOK'
           /\ RequestInv'
  <1>1. UNCHANGED <<client_stage, sending, next_request_id, request_data,
                    response_count, final_request_count, results>>
    BY DEF clientVars
  <1> QED BY <1>1 DEF ClusterInv, ClientTypeOK, RequestInv

LEMMA ElectionStep ==
    ASSUME ClusterInv, TakeLeadership, UNCHANGED clientVars
    PROVE  ClusterInv'
  <1> USE DEF ClusterInv
  <1>1. /\ elected' = TRUE
        /\ UNCHANGED <<connected, conn_id, max_client_id>>
        /\ UNCHANGED <<closed, breaks, start_signals, to_server, to_client>>
        /\ UNCHANGED <<stage, database, current_decided_idx, decided_commands,
                       proposed, log, states>>
    BY DEF TakeLeadership, netVars, registrationVars, localVars
  <1>2. /\ UNCHANGED <<client_stage, request_data>>
        /\ ClientTypeOK' /\ RequestInv'
    BY ClientsAlone
  <1>3. LinkTypeOK'
    BY <1>1 DEF LinkTypeOK
  <1>4. ServerTypeOK'
    BY <1>1 DEF ServerTypeOK
  <1>5. StartInv'
    BY <1>1, <1>2 DEF StartInv
  <1>6. MessageInv'
    BY <1>1, <1>2 DEF MessageInv, KnownCommand
  <1>7. ReplicaInv'
    BY <1>1 DEF ReplicaInv, Applied
  <1> QED BY <1>2, <1>3, <1>4, <1>5, <1>6, <1>7

LEMMA DecideStep ==
    ASSUME ClusterInv, NEW cmd \in proposed, Decide(cmd), UNCHANGED clientVars
    PROVE  ClusterInv'
  <1> USE DEF ClusterInv
  <1> DEFINE db == handle_command(states[Len(states)], cmd.kv_cmd)
  <1>1. /\ elected
        /\ log' = Append(log, cmd)
        /\ states' = Append(states, db)
        /\ proposed' = proposed \ {cmd}
        /\ UNCHANGED <<connected, conn_id, max_client_id>>
        /\ UNCHANGED <<closed, breaks, start_signals, to_server, to_client>>
        /\ UNCHANGED <<stage, database, current_decided_idx, decided_commands, elected>>
    BY DEF Decide, netVars, registrationVars, localVars
  <1>2. /\ UNCHANGED <<client_stage, request_data>>
        /\ ClientTypeOK' /\ RequestInv'
    BY ClientsAlone
  <1>3. /\ cmd \in Commands /\ cmd.kv_cmd \in KVCommand
        /\ log \in Seq(Commands) /\ states \in Seq(Databases) /\ states # <<>>
    BY DEF ServerTypeOK, Commands
  <1>4. db \in Databases
    <2>1. states[Len(states)] \in Databases
      BY <1>3
    <2> QED BY <2>1, <1>3, CommandType
  <1> HIDE DEF db
  <1>5. LinkTypeOK'
    BY <1>1 DEF LinkTypeOK
  <1>6. ServerTypeOK'
    <2>1. log' \in Seq(Commands) /\ states' \in Seq(Databases) \ {<<>>}
      BY <1>1, <1>3, <1>4
    <2> QED BY <1>1, <2>1 DEF ServerTypeOK
  <1>7. StartInv'
    BY <1>1, <1>2 DEF StartInv
  <1>8. MessageInv'
    <2>1. ASSUME NEW i \in 1 .. Len(log')
          PROVE  KnownCommand(log'[i])
      <3>1. CASE i \in 1 .. Len(log)
        <4>1. log'[i] = log[i]
          BY <3>1, <1>1, <1>3
        <4> QED BY <3>1, <4>1 DEF MessageInv
      <3>2. CASE i = Len(log) + 1
        <4>1. log'[i] = cmd
          BY <3>2, <1>1, <1>3
        <4> QED BY <4>1 DEF MessageInv
      <3> QED BY <3>1, <3>2, <1>1, <1>3
    <2>2. \A x : KnownCommand(x) => KnownCommand(x)'
      BY <1>1, <1>2 DEF KnownCommand
    <2> QED BY <1>1, <1>2, <2>1, <2>2 DEF MessageInv
  <1>9. ReplicaInv'
    <2>1. /\ Len(states) = Len(log) + 1 /\ Len(log) \in Nat
          /\ Len(log') = Len(log) + 1 /\ Len(states') = Len(log') + 1
          /\ \A i \in 1 .. Len(log) : log'[i] = log[i]
          /\ \A i \in 1 .. Len(log) + 1 : states'[i] = states[i]
          /\ log'[Len(log) + 1] = cmd
          /\ states'[Len(log) + 2] = db
      BY <1>1, <1>3, <1>4 DEF ReplicaInv
    <2>2. ASSUME NEW i \in 1 .. Len(log')
          PROVE  states'[i + 1] = handle_command(states'[i], log'[i].kv_cmd)
      <3>1. CASE i \in 1 .. Len(log)
        BY <3>1, <2>1 DEF ReplicaInv
      <3>2. CASE i = Len(log) + 1
        BY <3>2, <2>1 DEF db
      <3> QED BY <3>1, <3>2, <2>1
    <2>3. ASSUME NEW s \in Servers
          PROVE  /\ current_decided_idx[s] <= Len(log')
                 /\ Len(decided_commands[s]) <= current_decided_idx[s]
                 /\ \A j \in 1 .. Len(decided_commands[s]) :
                        decided_commands[s][j] = log'[Applied(s) + j]
                 /\ database[s] = states'[Applied(s) + 1]
      <3>1. /\ current_decided_idx[s] \in Nat /\ Len(decided_commands[s]) \in Nat
            /\ current_decided_idx[s] <= Len(log)
            /\ Len(decided_commands[s]) <= current_decided_idx[s]
            /\ Applied(s) = current_decided_idx[s] - Len(decided_commands[s])
        BY DEF ServerTypeOK, ReplicaInv, Applied
      <3>2. Applied(s) + 1 \in 1 .. Len(log) + 1
        BY <3>1, <2>1
      <3>3. \A j \in 1 .. Len(decided_commands[s]) : Applied(s) + j \in 1 .. Len(log)
        BY <3>1, <2>1
      <3>4. /\ database[s] = states[Applied(s) + 1]
            /\ \A j \in 1 .. Len(decided_commands[s]) :
                   decided_commands[s][j] = log[Applied(s) + j]
        BY DEF ReplicaInv
      <3>5. database[s] = states'[Applied(s) + 1]
        BY <2>1, <3>2, <3>4
      <3>6. \A j \in 1 .. Len(decided_commands[s]) :
               decided_commands[s][j] = log'[Applied(s) + j]
        BY <2>1, <3>3, <3>4
      <3> QED BY <2>1, <3>1, <3>5, <3>6
    <2> QED BY <1>1, <2>1, <2>2, <2>3 DEF ReplicaInv, Applied
  <1> QED BY <1>2, <1>5, <1>6, <1>7, <1>8, <1>9

LEMMA StartIds ==
    ASSUME NEW s \in Servers
    PROVE  1 .. num_clients(s) \subseteq ClientIds
  <1>1. ClientsOf(s) \in SUBSET Clients
    BY DEF ClientsOf
  <1>2. /\ num_clients(s) = Cardinality(ClientsOf(s))
        /\ num_clients(s) <= Cardinality(Clients)
        /\ num_clients(s) \in Nat /\ Cardinality(Clients) \in Nat
    BY <1>1, FS_Subset, FS_CardinalityType, NetworkAssumption
    DEF NetworkAssumption, num_clients, ClientsOf
  <1> QED BY <1>2 DEF ClientIds

LEMMA SignalStep ==
    ASSUME RegInv, ClusterInv, UNCHANGED clientVars, elected,
           NEW s \in Servers, send_client_start_signals(s),
           start_signals' \subseteq Servers \X Servers,
           stage' = [stage EXCEPT ![s] = "running"],
           UNCHANGED <<registrationVars, closed, breaks, to_server, localVars, libVars>>
    PROVE  ClusterInv'
  <1> USE DEF ClusterInv
  <1>1. /\ UNCHANGED <<connected, conn_id, max_client_id, closed, breaks, to_server>>
        /\ UNCHANGED <<database, current_decided_idx, decided_commands,
                       elected, proposed, log, states>>
    BY DEF registrationVars, localVars, libVars
  <1>2. /\ UNCHANGED <<client_stage, request_data>>
        /\ ClientTypeOK' /\ RequestInv'
    BY ClientsAlone
  <1>3. /\ to_client' \in [Clients -> Seq(ServerMessages)]
        /\ \A c \in Clients :
               /\ to_client'[c] # <<>> => conn_id[c] # 0
               /\ \A i \in 1 .. Len(to_client'[c]) :
                      to_client'[c][i] # StartSignal =>
                          to_client'[c][i].id < Len(request_data[c])
    <2> DEFINE messages == [id \in 1 .. num_clients(s) |-> StartSignal]
    <2>1. send_to_clients(s, messages)
      BY DEF send_client_start_signals
    <2>2. /\ DOMAIN messages \subseteq ClientIds
          /\ \A id \in DOMAIN messages :
                 messages[id] = StartSignal /\ messages[id] \in ServerMessages
      BY StartIds DEF ServerMessages
    <2> HIDE DEF messages
    <2> QED BY <2>1, <2>2, SendingKnown
  <1>4. LinkTypeOK'
    BY <1>1, <1>3 DEF LinkTypeOK
  <1>5. ServerTypeOK'
    BY <1>1 DEF ServerTypeOK
  <1>6. StartInv'
    BY <1>1, <1>2, <1>3 DEF StartInv
  <1>7. MessageInv'
    BY <1>1, <1>2, <1>3 DEF MessageInv, KnownCommand
  <1>8. ReplicaInv'
    BY <1>1 DEF ReplicaInv, Applied
  <1> QED BY <1>2, <1>4, <1>5, <1>6, <1>7, <1>8

LEMMA ReadStep ==
    ASSUME ClusterInv, UNCHANGED clientVars, NEW s \in Servers,
           handle_omnipaxos_message(s)
    PROVE  ClusterInv'
  <1> USE DEF ClusterInv
  <1>1. PICK new \in current_decided_idx[s] + 1 .. Len(log) :
            /\ current_decided_idx' = [current_decided_idx EXCEPT ![s] = new]
            /\ decided_commands' = [decided_commands EXCEPT ![s] =
                   SubSeq(log, current_decided_idx[s] + 1, new)]
    BY DEF handle_omnipaxos_message, handle_decided_entries
  <1>2. /\ decided_commands[s] = <<>>
        /\ UNCHANGED <<connected, conn_id, max_client_id>>
        /\ UNCHANGED <<closed, breaks, start_signals, to_server, to_client>>
        /\ UNCHANGED <<stage, database, elected, proposed, log, states>>
    BY DEF handle_omnipaxos_message, Ready, netVars, registrationVars, libVars
  <1>3. /\ UNCHANGED <<client_stage, request_data>>
        /\ ClientTypeOK' /\ RequestInv'
    BY ClientsAlone
  <1>4. /\ log \in Seq(Commands) /\ Len(log) \in Nat
        /\ current_decided_idx \in [Servers -> Nat]
        /\ decided_commands \in [Servers -> Seq(Commands)]
        /\ current_decided_idx[s] \in Nat /\ new \in Nat
    BY <1>1 DEF ServerTypeOK
  <1> DEFINE q == SubSeq(log, current_decided_idx[s] + 1, new)
  <1>5. /\ q \in Seq(Commands)
        /\ Len(q) = new - current_decided_idx[s]
        /\ \A j \in 1 .. Len(q) : q[j] = log[current_decided_idx[s] + j]
    BY <1>1, <1>4
  <1>6. decided_commands' = [decided_commands EXCEPT ![s] = q]
    BY <1>1
  <1> HIDE DEF q
  <1>7. LinkTypeOK'
    BY <1>2 DEF LinkTypeOK
  <1>8. ServerTypeOK'
    <2>1. /\ current_decided_idx' \in [Servers -> Nat]
          /\ decided_commands' \in [Servers -> Seq(Commands)]
      BY <1>1, <1>4, <1>5, <1>6
    <2> QED BY <1>2, <2>1 DEF ServerTypeOK
  <1>9. StartInv'
    BY <1>2, <1>3 DEF StartInv
  <1>10. MessageInv'
    BY <1>2, <1>3 DEF MessageInv, KnownCommand
  <1>11. ReplicaInv'
    <2> SUFFICES ASSUME NEW u \in Servers
                 PROVE  /\ current_decided_idx'[u] <= Len(log)
                        /\ Len(decided_commands'[u]) <= current_decided_idx'[u]
                        /\ \A j \in 1 .. Len(decided_commands'[u]) :
                               decided_commands'[u][j] = log[Applied(u)' + j]
                        /\ database[u] = states[Applied(u)' + 1]
      BY <1>2 DEF ReplicaInv
    <2>1. CASE u = s
      <3>1. current_decided_idx'[s] = new /\ decided_commands'[s] = q
        BY <1>1, <1>4, <1>6
      <3>2. Applied(s)' = current_decided_idx[s]
        BY <3>1, <1>4, <1>5 DEF Applied
      <3>3. Applied(s) = current_decided_idx[s]
        BY <1>2, <1>4 DEF Applied
      <3>4. database[s] = states[Applied(s) + 1]
        BY DEF ReplicaInv
      <3>5. new <= Len(log) /\ Len(q) <= new
        BY <1>1, <1>4, <1>5
      <3> QED BY <2>1, <3>1, <3>2, <3>3, <3>4, <3>5, <1>5
    <2>2. CASE u # s
      <3>1. /\ current_decided_idx'[u] = current_decided_idx[u]
            /\ decided_commands'[u] = decided_commands[u]
        BY <2>2, <1>1, <1>4
      <3>2. Applied(u)' = Applied(u)
        BY <3>1 DEF Applied
      <3> QED BY <3>1, <3>2 DEF ReplicaInv
    <2> QED BY <2>1, <2>2
  <1> QED BY <1>3, <1>7, <1>8, <1>9, <1>10, <1>11

LEMMA ExecuteStep ==
    ASSUME RegInv, ClusterInv, UNCHANGED clientVars, NEW s \in Servers,
           update_database_and_respond(s)
    PROVE  ClusterInv'
  <1> USE DEF ClusterInv
  <1> DEFINE command == Head(decided_commands[s])
             response == response_to(database[s], command.kv_cmd, command.id)
             messages == [id \in {command.client_id} |-> response]
  <1>1. /\ decided_commands[s] # <<>>
        /\ database' = [database EXCEPT ![s] = handle_command(@, command.kv_cmd)]
        /\ \/ command.coordinator_id = s /\ send_to_clients(s, messages)
           \/ UNCHANGED to_client
        /\ decided_commands' = [decided_commands EXCEPT ![s] = Tail(@)]
        /\ UNCHANGED <<connected, conn_id, max_client_id>>
        /\ UNCHANGED <<closed, breaks, start_signals, to_server>>
        /\ UNCHANGED <<stage, current_decided_idx, elected, proposed, log, states>>
    BY DEF update_database_and_respond, registrationVars, libVars
  <1>2. /\ UNCHANGED <<client_stage, request_data>>
        /\ ClientTypeOK' /\ RequestInv'
    BY ClientsAlone
  <1>3. /\ decided_commands \in [Servers -> Seq(Commands)]
        /\ decided_commands[s] \in Seq(Commands)
        /\ current_decided_idx[s] \in Nat /\ Len(decided_commands[s]) \in Nat
        /\ Len(log) \in Nat /\ log \in Seq(Commands)
        /\ database \in [Servers -> Databases]
    BY DEF ServerTypeOK
  <1>4. /\ Len(decided_commands[s]) >= 1 /\ command = decided_commands[s][1]
        /\ command \in Commands
    BY <1>1, <1>3
  <1>5. /\ Applied(s) \in Nat /\ Applied(s) + 1 \in 1 .. Len(log)
        /\ command = log[Applied(s) + 1]
        /\ database[s] = states[Applied(s) + 1]
    <2>1. /\ current_decided_idx[s] <= Len(log)
          /\ Len(decided_commands[s]) <= current_decided_idx[s]
          /\ \A j \in 1 .. Len(decided_commands[s]) :
                 decided_commands[s][j] = log[Applied(s) + j]
          /\ database[s] = states[Applied(s) + 1]
      BY DEF ReplicaInv
    <2>2. Applied(s) = current_decided_idx[s] - Len(decided_commands[s])
      BY DEF Applied
    <2> QED BY <2>1, <2>2, <1>3, <1>4
  <1>6. KnownCommand(command)
    BY <1>5 DEF MessageInv
  <1>7. elected
    BY <1>3, <1>5 DEF StartInv
  <1>8. /\ command.client_id \in ClientIds /\ command.id \in Nat
        /\ command.kv_cmd \in KVCommand /\ database[s] \in Databases
    BY <1>3, <1>4 DEF Commands
  <1>9. response \in ServerMessages /\ response.id = command.id
    BY <1>8, ResponseType
  <1>10. handle_command(database[s], command.kv_cmd) \in Databases
    BY <1>8, CommandType
  <1> HIDE DEF command, response
  <1>11. /\ to_client' \in [Clients -> Seq(ServerMessages)]
         /\ \A c \in Clients :
                /\ to_client'[c] # <<>> => conn_id[c] # 0
                /\ \A i \in 1 .. Len(to_client'[c]) :
                       to_client'[c][i] # StartSignal =>
                           to_client'[c][i].id < Len(request_data[c])
    <2>1. CASE UNCHANGED to_client
      BY <2>1 DEF LinkTypeOK, StartInv, MessageInv
    <2>2. CASE command.coordinator_id = s /\ send_to_clients(s, messages)
      <3>1. /\ DOMAIN messages \subseteq ClientIds
            /\ \A id \in DOMAIN messages : id = command.client_id /\ messages[id] = response
        BY <1>8
      <3> HIDE DEF messages
      <3>2. ASSUME NEW id \in DOMAIN messages
            PROVE  /\ messages[id] \in ServerMessages
                   /\ \A c \in Clients : server_id[c] = s /\ conn_id[c] = id
                          => messages[id].id < Len(request_data[c])
        BY <2>2, <3>1, <1>6, <1>9 DEF KnownCommand
      <3> QED BY <2>2, <3>1, <3>2, <1>7, SendingKnown
    <2> QED BY <1>1, <2>1, <2>2
  <1>12. LinkTypeOK'
    BY <1>1, <1>11 DEF LinkTypeOK
  <1>13. ServerTypeOK'
    <2>1. Tail(decided_commands[s]) \in Seq(Commands)
      BY <1>1, <1>3
    <2>2. /\ database' \in [Servers -> Databases]
          /\ decided_commands' \in [Servers -> Seq(Commands)]
      BY <1>1, <1>3, <1>10, <2>1
    <2> QED BY <1>1, <2>2 DEF ServerTypeOK
  <1>14. StartInv'
    BY <1>1, <1>2, <1>7, <1>11 DEF StartInv
  <1>15. MessageInv'
    BY <1>1, <1>2, <1>11 DEF MessageInv, KnownCommand
  <1>16. ReplicaInv'
    <2> SUFFICES ASSUME NEW u \in Servers
                 PROVE  /\ current_decided_idx[u] <= Len(log)
                        /\ Len(decided_commands'[u]) <= current_decided_idx[u]
                        /\ \A j \in 1 .. Len(decided_commands'[u]) :
                               decided_commands'[u][j] = log[Applied(u)' + j]
                        /\ database'[u] = states[Applied(u)' + 1]
      BY <1>1 DEF ReplicaInv
    <2>0. /\ current_decided_idx[u] <= Len(log)
          /\ Len(decided_commands[u]) <= current_decided_idx[u]
          /\ \A j \in 1 .. Len(decided_commands[u]) :
                 decided_commands[u][j] = log[Applied(u) + j]
          /\ database[u] = states[Applied(u) + 1]
      BY DEF ReplicaInv
    <2>1. CASE u = s
      <3>1. /\ decided_commands'[s] = Tail(decided_commands[s])
            /\ Len(decided_commands'[s]) = Len(decided_commands[s]) - 1
            /\ \A j \in 1 .. Len(decided_commands'[s]) :
                   decided_commands'[s][j] = decided_commands[s][j + 1]
        BY <1>1, <1>3
      <3>2. Applied(s)' = Applied(s) + 1
        BY <3>1, <1>1, <1>3 DEF Applied
      <3>3. database'[s] = states[Applied(s) + 2]
        <4>1. database'[s] = handle_command(states[Applied(s) + 1], log[Applied(s) + 1].kv_cmd)
          BY <1>1, <1>3, <1>5
        <4>2. states[Applied(s) + 1 + 1] =
                 handle_command(states[Applied(s) + 1], log[Applied(s) + 1].kv_cmd)
          BY <1>5 DEF ReplicaInv
        <4> QED BY <4>1, <4>2, <1>5
      <3>4. ASSUME NEW j \in 1 .. Len(decided_commands'[s])
            PROVE  decided_commands'[s][j] = log[Applied(s) + 1 + j]
        <4>1. j + 1 \in 1 .. Len(decided_commands[s])
          BY <3>1, <1>3
        <4>2. decided_commands[s][j + 1] = log[Applied(s) + (j + 1)]
          BY <4>1, <2>0, <2>1
        <4>3. Applied(s) + (j + 1) = Applied(s) + 1 + j
          BY <1>5
        <4> QED BY <3>1, <4>2, <4>3
      <3>5. Len(decided_commands'[s]) <= current_decided_idx[s]
        BY <3>1, <2>0, <2>1, <1>3
      <3>6. Applied(s)' + 1 = Applied(s) + 2
        BY <3>2, <1>5
      <3> QED BY <2>0, <2>1, <3>2, <3>3, <3>4, <3>5, <3>6
    <2>2. CASE u # s
      <3>1. decided_commands'[u] = decided_commands[u] /\ database'[u] = database[u]
        BY <2>2, <1>1, <1>3
      <3>2. Applied(u)' = Applied(u)
        BY <3>1, <1>1 DEF Applied
      <3> QED BY <2>0, <3>1, <3>2
    <2> QED BY <2>1, <2>2
  <1> QED BY <1>2, <1>12, <1>13, <1>14, <1>15, <1>16

LEMMA AppendStep ==
    ASSUME RegInv, ClusterInv, UNCHANGED clientVars, NEW s \in Servers,
           NEW c \in Clients, handle_client_message(s, c)
    PROVE  ClusterInv'
  <1> USE DEF ClusterInv
  <1> DEFINE message == Head(to_server[c])
             cmd == append_to_log(s, conn_id[c], message)
  <1>1. /\ server_id[c] = s
        /\ to_server[c] # <<>>
        /\ to_server' = [to_server EXCEPT ![c] = Tail(@)]
        /\ proposed' = proposed \cup {cmd}
        /\ UNCHANGED <<connected, conn_id, max_client_id>>
        /\ UNCHANGED <<closed, breaks, start_signals, to_client>>
        /\ UNCHANGED <<stage, database, current_decided_idx, decided_commands,
                       elected, log, states>>
    BY DEF handle_client_message, registrationVars, localVars
  <1>2. /\ UNCHANGED <<client_stage, request_data>>
        /\ ClientTypeOK' /\ RequestInv'
    BY ClientsAlone
  <1>3. /\ to_server[c] \in Seq(ClientMessages)
        /\ to_client \in [Clients -> Seq(ServerMessages)]
        /\ to_client[c] \in Seq(ServerMessages)
    BY DEF LinkTypeOK
  <1>4. /\ 1 \in 1 .. Len(to_server[c]) /\ message = to_server[c][1]
        /\ message \in ClientMessages
    BY <1>1, <1>3
  <1>5. conn_id[c] # 0 /\ elected
    BY <1>1 DEF StartInv
  <1>6. cmd \in Commands
    <2>1. conn_id[c] \in ClientIds
      BY <1>5 DEF RegInv, RegistrationTypeOK
    <2>2. message.id \in Nat /\ message.cmd \in KVCommand
      BY <1>4 DEF ClientMessages
    <2> HIDE DEF message
    <2> QED BY <2>1, <2>2 DEF append_to_log, Commands
  <1>7. KnownCommand(cmd)
    <2>1. cmd.client_id = conn_id[c] /\ cmd.coordinator_id = s /\ cmd.id = message.id
      BY DEF append_to_log
    <2>2. message.id < Len(request_data[c])
      BY <1>4 DEF MessageInv
    <2>3. conn_id[c] <= max_client_id[s]
      BY <1>1, <1>5 DEF RegInv, IdInv
    <2>4. \A d \in Clients : server_id[d] = s /\ conn_id[d] = conn_id[c] => d = c
      BY <1>1, <1>5 DEF RegInv, IdInv
    <2> HIDE DEF cmd, message
    <2> QED BY <2>1, <2>2, <2>3, <2>4 DEF KnownCommand
  <1>8. LinksShrink
    <2>1. Tail(to_server[c]) \in Seq(ClientMessages) /\ Part(Tail(to_server[c]), to_server[c])
      BY <1>1, <1>3, PartTail
    <2>2. Part(to_client[c], to_client[c])
      BY <1>3, PartOfItself
    <2>3. to_client' = [to_client EXCEPT ![c] = to_client[c]]
      BY <1>1, <1>3
    <2> QED BY <1>1, <1>3, <2>1, <2>2, <2>3, OneLinkShrinks
  <1>9. \A d \in Clients : LinkKnown(d)'
    <2>1. \A d \in Clients : Len(request_data[d]) <= Len(request_data'[d])
      BY <1>2 DEF ClientTypeOK
    <2> QED BY <1>1, <1>2, <1>8, <2>1, ShrunkLinks
  <1> HIDE DEF cmd
  <1>10. LinkTypeOK'
    BY <1>1, <1>8 DEF LinkTypeOK, LinksShrink
  <1>11. ServerTypeOK'
    BY <1>1, <1>6 DEF ServerTypeOK
  <1>12. StartInv'
    BY <1>1, <1>2, <1>5, <1>9 DEF StartInv, LinkKnown
  <1>13. MessageInv'
    <2>1. \A x : KnownCommand(x) => KnownCommand(x)'
      BY <1>1, <1>2 DEF KnownCommand
    <2>2. \A x \in proposed' : KnownCommand(x)'
      BY <1>1, <1>7, <2>1 DEF MessageInv
    <2>3. \A i \in 1 .. Len(log) : KnownCommand(log[i])'
      BY <1>1, <2>1 DEF MessageInv
    <2>4. \A d \in Clients : client_stage'[d] # "panicked"
      BY <1>2 DEF MessageInv
    <2> QED BY <1>1, <1>9, <2>2, <2>3, <2>4 DEF MessageInv, LinkKnown
  <1>14. ReplicaInv'
    BY <1>1 DEF ReplicaInv, Applied
  <1> QED BY <1>2, <1>10, <1>11, <1>12, <1>13, <1>14

\* Nothing that ClusterInv speaks of changes.
LEMMA QuietStep ==
    ASSUME ClusterInv,
           UNCHANGED <<registrationVars, closed, breaks, start_signals,
                       to_server, to_client, serverVars, clientVars>>
    PROVE  ClusterInv'
  <1> USE DEF ClusterInv
  <1>1. /\ UNCHANGED <<connected, conn_id, max_client_id>>
        /\ UNCHANGED <<closed, breaks, start_signals, to_server, to_client>>
        /\ UNCHANGED <<stage, database, current_decided_idx, decided_commands,
                       elected, proposed, log, states>>
    BY DEF registrationVars, serverVars, localVars, libVars
  <1>2. /\ UNCHANGED <<client_stage, request_data>>
        /\ ClientTypeOK' /\ RequestInv'
    BY ClientsAlone
  <1>3. LinkTypeOK' /\ ServerTypeOK'
    BY <1>1 DEF LinkTypeOK, ServerTypeOK
  <1>4. StartInv' /\ MessageInv'
    BY <1>1, <1>2 DEF StartInv, MessageInv, KnownCommand
  <1>5. ReplicaInv'
    BY <1>1 DEF ReplicaInv, Applied
  <1> QED BY <1>2, <1>3, <1>4, <1>5

LEMMA ClusterServerStep ==
    ASSUME RegInv, ClusterInv, NEW s \in Servers, ServerStep(s), UNCHANGED clientVars
    PROVE  ClusterInv'
  <1>1. CASE establish_initial_leader(s)
    <2>1. /\ elected
          /\ send_client_start_signals(s)
          /\ stage' = [stage EXCEPT ![s] = "running"]
          /\ UNCHANGED <<registrationVars, closed, breaks, to_server, localVars, libVars>>
          /\ start_signals' = start_signals \cup
                 {<<s, t>> : t \in {t \in Peers(s) : Reaches(s, t)}}
      BY <1>1 DEF establish_initial_leader
    <2>2. start_signals' \subseteq Servers \X Servers
      BY <2>1 DEF ClusterInv, LinkTypeOK, Peers
    <2> QED BY <2>1, <2>2, SignalStep
  <1>2. ASSUME NEW t \in Servers, handle_start_signal(s, t)
        PROVE  ClusterInv'
    <2>1. /\ <<t, s>> \in start_signals
          /\ send_client_start_signals(s)
          /\ stage' = [stage EXCEPT ![s] = "running"]
          /\ UNCHANGED <<registrationVars, closed, breaks, to_server, localVars, libVars>>
          /\ start_signals' = start_signals \ {<<t, s>>}
      BY <1>2 DEF handle_start_signal
    <2>2. start_signals' \subseteq Servers \X Servers
      BY <2>1 DEF ClusterInv, LinkTypeOK
    <2>3. elected
      BY <2>1 DEF ClusterInv, StartInv
    <2> QED BY <2>1, <2>2, <2>3, SignalStep
  <1>3. ASSUME NEW t \in Servers, send_outgoing_msgs(s, t)
        PROVE  ClusterInv'
    BY <1>3, QuietStep DEF send_outgoing_msgs
  <1> QED BY <1>1, <1>2, <1>3, ReadStep, ExecuteStep, AppendStep DEF ServerStep

LEMMA ClusterStep == RegInv /\ RegInv' /\ ClusterInv /\ [Next]_vars => ClusterInv'
  <1> SUFFICES ASSUME RegInv, RegInv', ClusterInv, [Next]_vars PROVE ClusterInv'
    OBVIOUS
  <1>1. CASE RegistrationStep /\ UNCHANGED <<serverVars, clientVars>>
    BY <1>1, RegistrationFrame, ClusterRegStep
  <1>2. CASE Break /\ UNCHANGED <<serverVars, clientVars>>
    BY <1>2, BreakStep
  <1>3. CASE TakeLeadership /\ UNCHANGED clientVars
    BY <1>3, ElectionStep
  <1>4. ASSUME NEW cmd \in proposed, Decide(cmd), UNCHANGED clientVars
        PROVE  ClusterInv'
    BY <1>4, DecideStep
  <1>5. ASSUME NEW s \in Servers, ServerStep(s), UNCHANGED clientVars
        PROVE  ClusterInv'
    BY <1>5, ClusterServerStep
  <1>6. ASSUME NEW c \in Clients, ClientStep(c), UNCHANGED serverVars
        PROVE  ClusterInv'
    BY <1>6, ClusterClientStep
  <1>7. CASE UNCHANGED vars
    BY <1>7, QuietStep DEF vars, netVars
  <1> QED BY <1>1, <1>2, <1>3, <1>4, <1>5, <1>6, <1>7 DEF Next

------------------------------------------------------------------------------
(* The theorems.                                                            *)

\* The inductive invariant, on top of that of the registration.
THEOREM ClusterInvariant == Spec => []ClusterInv
  BY ClusterInit, ClusterStep, RegistrationInvariant, PTL DEF Spec

\* Registrations, links, servers and clients only hold what their types allow.
THEOREM ClusterTypes == Spec => []TypeOK
  <1>1. RegInv /\ ClusterInv => TypeOK
    BY DEF RegInv, ClusterInv, TypeOK
  <1> QED BY <1>1, RegistrationInvariant, ClusterInvariant, PTL

\* No client is started and no command appended before the initial leader is
\* in its accept phase (establish_initial_leader), also when start signals are
\* relayed by followers or lost with a connection.
THEOREM NoStartBeforeElection == Spec => []StartedAfterElection
  <1>1. ClusterInv => StartedAfterElection
    BY DEF ClusterInv, StartInv, StartedAfterElection
  <1> QED BY <1>1, ClusterInvariant, PTL

\* handle_decided_entries and update_database_and_respond: every database is
\* the replay of a prefix of the one decided log.
THEOREM DatabasesAreReplays == Spec => []DatabasesAgree
  <1>1. ClusterInv => DatabasesAgree
    <2> SUFFICES ASSUME ClusterInv, NEW s \in Servers
                 PROVE  Applied(s) \in 0 .. Len(log) /\ database[s] = states[Applied(s) + 1]
      BY DEF DatabasesAgree
    <2>1. /\ current_decided_idx[s] \in Nat /\ Len(decided_commands[s]) \in Nat
          /\ Len(log) \in Nat
      BY DEF ClusterInv, ServerTypeOK
    <2>2. /\ current_decided_idx[s] <= Len(log)
          /\ Len(decided_commands[s]) <= current_decided_idx[s]
          /\ database[s] = states[Applied(s) + 1]
      BY DEF ClusterInv, ReplicaInv
    <2> QED BY <2>1, <2>2 DEF Applied
  <1> QED BY <1>1, ClusterInvariant, PTL

\* handle_server_message and ClientData::new_response: no client is sent a
\* response to a request it has not recorded, although client ids and request
\* ids are the same at different servers.
THEOREM NoClientPanics == Spec => []ClientsNeverPanic
  <1>1. ClusterInv => ClientsNeverPanic
    BY DEF ClusterInv, MessageInv, ClientsNeverPanic
  <1> QED BY <1>1, ClusterInvariant, PTL
==============================================================================
