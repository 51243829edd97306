------------------------- MODULE CracenContextProofs -------------------------
(***************************************************************************)
(* What holds of a context for any number of clients and any role graph.   *)
(*                                                                         *)
(* Part 1, in any order of delivery: the types, and that clients only ever *)
(* enter endpoints of neighbouring roles into their maps.                  *)
(*                                                                         *)
(* Part 2, over a transport that keeps the messages of a sender in order   *)
(* and loses none (BoostMpi: see BoostMpiProofs), although clients crash   *)
(* and the server is stopped: the handshake of registration and departure  *)
(* never meets a message it does not expect, a client that is released has *)
(* the whole role graph, and one that has left is sent nothing any more.   *)
(***************************************************************************)
EXTENDS CracenContext, FiniteSetTheorems, SequenceTheorems, TLAPS

-----------------------------------------------------------------------------
(* Facts about the operators of the model *)

\* Removing an element leaves a sequence over the same set.
LEMMA RemoveAtSeq ==
    ASSUME NEW S, NEW s \in Seq(S), NEW i \in DOMAIN s
    PROVE  RemoveAt(s, i) \in Seq(S)
<1>1. /\ i \in 1 .. Len(s)
      /\ Len(s) \in Nat
      /\ \A k \in 1 .. Len(s) : s[k] \in S
  BY LenProperties
<1>2. SubSeq(s, 1, i - 1) \in Seq(S)
  BY <1>1, SubSeqProperties
<1>3. SubSeq(s, i + 1, Len(s)) \in Seq(S)
  BY <1>1, SubSeqProperties
<1>. QED  BY <1>2, <1>3, ConcatProperties DEF RemoveAt

\* n copies of an element.
LEMMA CopiesSeq ==
    ASSUME NEW S, NEW x, NEW n \in Nat, n > 0 => x \in S
    PROVE  [k \in 1 .. n |-> x] \in Seq(S)
<1>1. \A k \in 1 .. n : x \in S
  OBVIOUS
<1>. QED  BY <1>1, IsASeq

\* The positions a receive may take a message from are positions.
LEMMA ArrivedInDomain ==
    ASSUME NEW channel
    PROVE  Arrived(channel) \subseteq DOMAIN channel
<1>. QED  BY DEF Arrived

\* The neighbour visits of the server are finitely many.
LEMMA VisitsFinite ==
    ASSUME ServerTypeOK, NEW role
    PROVE  /\ IsFiniteSet(Visits(role))
           /\ Cardinality(Visits(role)) \in Nat
<1>. DEFINE A == DOMAIN roleGraphConnections
            B == DOMAIN participants
            D == ({1, 2} \X A) \X B
            T == {1, 2} \X A \X B
            f == [x \in D |-> <<x[1][1], x[1][2], x[2]>>]
<1>1. IsFiniteSet({1, 2}) /\ IsFiniteSet(A) /\ IsFiniteSet(B)
  <2>1. IsFiniteSet({1, 2})
    <3>1. IsFiniteSet(1 .. 2)
      <4>1. 1 \in Int /\ 2 \in Int
        OBVIOUS
      <4>. QED  BY <4>1, FS_Interval, Zenon
    <3>2. 1 .. 2 = {1, 2}
      OBVIOUS
    <3>. QED  BY <3>1, <3>2
  <2>2. Len(roleGraphConnections) \in Nat /\ A = 1 .. Len(roleGraphConnections)
    BY LenProperties DEF ServerTypeOK
  <2>3. IsFiniteSet(1 .. Len(roleGraphConnections))
    BY <2>2, FS_Interval
  <2>. QED  BY <2>1, <2>2, <2>3 DEF ServerTypeOK
<1>2. IsFiniteSet({1, 2} \X A)
  BY <1>1, FS_Product
<1>3. IsFiniteSet(D)
  BY <1>1, <1>2, FS_Product
<1>4. f \in Surjection(D, T)
  <2>1. f \in [D -> T]
    OBVIOUS
  <2>2. ASSUME NEW t \in T
        PROVE  \E x \in D : f[x] = t
    <3>1. << <<t[1], t[2]>>, t[3]>> \in D
      OBVIOUS
    <3>2. f[<< <<t[1], t[2]>>, t[3]>>] = t
      BY <3>1
    <3>. QED  BY <3>1, <3>2
  <2>. QED  BY <2>1, <2>2 DEF Surjection
<1>5. IsFiniteSet(T)
  BY <1>3, <1>4, FS_Surjection
<1>6. Visits(role) \subseteq T
  BY DEF Visits
<1>. QED  BY <1>5, <1>6, FS_Subset, FS_CardinalityType

\* A call order is a sequence of visits.
LEMMA CallOrdersSeq ==
    ASSUME ServerTypeOK, NEW role, NEW calls \in CallOrders(role)
    PROVE  calls \in Seq(Visits(role))
<1>1. calls \in [1 .. Cardinality(Visits(role)) -> Visits(role)]
  BY DEF CallOrders, SetToSeqs
<1>. QED  BY <1>1, VisitsFinite, IsASeq

\* The copies of a message are a sequence of that message, empty unless the client
\* manages a participant that is visited.
LEMMA CopiesForSeq ==
    ASSUME ServerTypeOK, NEW S, NEW m, NEW c, NEW role,
           (\E visit \in Visits(role) : participants[visit[3]].managerEndpoint = c) => m \in S
    PROVE  CopiesFor(c, role, m) \in Seq(S)
<1>. DEFINE visits == {visit \in Visits(role) : participants[visit[3]].managerEndpoint = c}
<1>1. visits \subseteq Visits(role)
  OBVIOUS
<1>2. Cardinality(visits) \in Nat
  BY <1>1, VisitsFinite, FS_Subset, FS_CardinalityType
<1>3. Cardinality(visits) > 0 => m \in S
  <2>1. CASE visits = {}
    <3>1. IsFiniteSet(visits)
      BY <1>1, VisitsFinite, FS_Subset
    <3>2. Cardinality(visits) = 0
      BY <2>1, <3>1, FS_EmptySet, Zenon
    <3>. QED  BY <3>2
  <2>2. CASE visits # {}
    BY <2>2
  <2>. QED  BY <2>1, <2>2
<1>. HIDE DEF visits
<1>4. [i \in 1 .. Cardinality(visits) |-> m] \in Seq(S)
  BY <1>2, <1>3, CopiesSeq
<1>. QED  BY <1>4 DEF CopiesFor, visits

\* The releases of a client are a sequence of RolesComplete.
LEMMA ReleasesSeq ==
    ASSUME ServerTypeOK, NEW S, RolesComplete \in S, NEW c
    PROVE  Releases(c) \in Seq(S)
<1>. DEFINE queued == {k \in DOMAIN registerQueue : registerQueue[k] = c}
<1>1. /\ Len(registerQueue) \in Nat
      /\ DOMAIN registerQueue = 1 .. Len(registerQueue)
  BY LenProperties DEF ServerTypeOK
<1>2. IsFiniteSet(DOMAIN registerQueue)
  BY <1>1, FS_Interval
<1>3. Cardinality(queued) \in Nat
  BY <1>2, FS_Subset, FS_CardinalityType
<1>. QED  BY <1>3, CopiesSeq DEF Releases

-----------------------------------------------------------------------------
(* The messages *)

\* A data endpoint is an endpoint.
LEMMA DataEndpointType ==
    ASSUME NEW c \in Clients
    PROVE  /\ DataEndpoint(c) \in Endpoints
           /\ DataEndpoint(c) = normalize(LocalEndpoint[c], c)
<1>1. LocalEndpoint[c] \in (Hosts \cup {AnyHost}) \X Ports
  BY EndpointAssumption DEF Endpoints
<1>2. HostOf[c] \in Hosts
  BY HostAssumption
<1>. QED  BY <1>1, <1>2 DEF DataEndpoint, normalize, Endpoints

\* An edge of the role graph is a pair of roles.
LEMMA RoleGraphEdges ==
    ASSUME NEW k \in DOMAIN RoleGraph
    PROVE  RoleGraph[k] \in Edges
<1>. QED  BY RoleAssumption, LenProperties

\* What may be sent is a message.
LEMMA MailIsMessages ==
    /\ \A s \in Senders : MailToServer(s) \subseteq Messages
    /\ \A c \in Clients : MailToClient(c) \subseteq Messages
<1>. USE DEF Register, RoleGraphRequest, AddRoleConnection, RolesComplete, Embody,
             Announce, Disembody, ServerClose, Messages
<1>1. ASSUME NEW s \in Senders, NEW m \in MailToServer(s)
      PROVE  m \in Messages
  <2>1. CASE s = Server
    BY <2>1 DEF MailToServer
  <2>2. CASE s # Server
    <3>1. s \in Clients
      BY <2>2 DEF Senders
    <3>2. LocalEndpoint[s] \in Endpoints /\ RoleOf[s] \in Roles
      BY <3>1, EndpointAssumption, RoleAssumption
    <3>. QED  BY <2>2, <3>2, RoleGraphEdges DEF MailToServer
  <2>. QED  BY <2>1, <2>2
<1>2. ASSUME NEW c \in Clients, NEW m \in MailToClient(c)
      PROVE  m \in Messages
  <2>1. /\ LocalEndpoint[c] \in Endpoints
        /\ \A d \in Peers(c) : DataEndpoint(d) \in Endpoints /\ RoleOf[d] \in Roles
    BY DataEndpointType, EndpointAssumption, RoleAssumption DEF Peers
  <2>. QED  BY <2>1, RoleGraphEdges DEF MailToClient
<1>. QED  BY <1>1, <1>2

\* What a client's message of a given type says.
LEMMA ClientMessage ==
    ASSUME NEW c \in Clients, NEW m \in MailToServer(c)
    PROVE  /\ m.type = "AddRoleConnection" =>
                \E k \in DOMAIN RoleGraph : m = AddRoleConnection(RoleGraph[k])
           /\ m.type = "Embody" => m = Embody(LocalEndpoint[c], RoleOf[c])
           /\ m.type = "Disembody" => m = Disembody(LocalEndpoint[c])
<1>1. c # Server
  BY ClientsAssumption
<1>2. m \in {Register, RolesComplete,
             Embody(LocalEndpoint[c], RoleOf[c]), Disembody(LocalEndpoint[c])}
            \cup {AddRoleConnection(RoleGraph[k]) : k \in DOMAIN RoleGraph}
  BY <1>1 DEF MailToServer
<1>. QED  BY <1>2 DEF Register, RolesComplete, Embody, Disembody, AddRoleConnection

\* What the server says of a peer.
LEMMA PeerMessage ==
    ASSUME NEW c \in Clients, NEW m \in MailToClient(c),
           m.type \in {"Embody", "Announce"}
    PROVE  /\ m.roleId \in Roles
           /\ m.endpoint \in PeerEndpoints(c, m.roleId)
<1>1. \E d \in Peers(c) : \/ m = Embody(DataEndpoint(d), RoleOf[d])
                          \/ m = Announce(DataEndpoint(d), RoleOf[d])
  BY DEF MailToClient, RoleGraphRequest, RolesComplete, AddRoleConnection, Disembody
<1>2. PICK d \in Peers(c) : \/ m = Embody(DataEndpoint(d), RoleOf[d])
                            \/ m = Announce(DataEndpoint(d), RoleOf[d])
  BY <1>1
<1>3. m.endpoint = DataEndpoint(d) /\ m.roleId = RoleOf[d]
  BY <1>2 DEF Embody, Announce
<1>4. d \in Clients
  BY DEF Peers
<1>. QED  BY <1>3, <1>4, RoleAssumption DEF PeerEndpoints

-----------------------------------------------------------------------------
(* The inductive invariant: types and truth of every piece of state *)

IInv == NetworkTypeOK /\ ServerTypeOK /\ ClientTypeOK /\ Truthful

ToServerInv ==
    /\ toServer \in [Senders -> Seq(Messages)]
    /\ \A s \in Senders : toServer[s] \in Seq(MailToServer(s))
ToClientInv ==
    /\ toClient \in [Clients -> Seq(Messages)]
    /\ \A c \in Clients : toClient[c] \in Seq(MailToClient(c))
GraphInv ==
    /\ roleGraphConnections \in Seq(Edges)
    /\ \A i \in DOMAIN roleGraphConnections :
            \E k \in DOMAIN RoleGraph : roleGraphConnections[i] = RoleGraph[k]
ParticipantInv(key) ==
    /\ participants[key] \in Participants
    /\ LET owner == participants[key].managerEndpoint IN
        /\ participants[key].dataEndpoint = DataEndpoint(owner)
        /\ participants[key].roleId = RoleOf[owner]
ParticipantsInv ==
    /\ DOMAIN participants \subseteq Endpoints
    /\ IsFiniteSet(DOMAIN participants)
    /\ \A key \in DOMAIN participants : ParticipantInv(key)
MapsInv ==
    /\ roleEndpointMap \in [Clients -> [Roles -> Seq(Endpoints)]]
    /\ \A c \in Clients : \A r \in Roles :
            roleEndpointMap[c][r] \in Seq(PeerEndpoints(c, r))
ControlInv ==
    /\ state \in States
    /\ registerQueue \in Seq(Clients)
    /\ server \in {"receiving", "stopped", "failed"}
    /\ pc \in [Clients -> ClientStates]
    /\ running \in [Clients -> BOOLEAN]

LEMMA IInvParts ==
    IInv <=> /\ ToServerInv /\ ToClientInv /\ GraphInv
             /\ ParticipantsInv /\ MapsInv /\ ControlInv
<1>. QED
  BY DEF IInv, Truthful, NetworkTypeOK, ServerTypeOK, ClientTypeOK, ToServerInv,
         ToClientInv, GraphInv, ParticipantsInv, ParticipantInv, MapsInv, ControlInv

LEMMA IInvPartsPrimed ==
    IInv' <=> /\ ToServerInv' /\ ToClientInv' /\ GraphInv'
              /\ ParticipantsInv' /\ MapsInv' /\ ControlInv'
<1>. QED
  BY DEF IInv, Truthful, NetworkTypeOK, ServerTypeOK, ClientTypeOK, ToServerInv,
         ToClientInv, GraphInv, ParticipantsInv, ParticipantInv, MapsInv, ControlInv

\* Adding true messages to a channel, or taking one out of it, keeps it true.
LEMMA ToServerKept ==
    ASSUME ToServerInv, NEW s \in Senders, NEW ms \in Seq(MailToServer(s)),
           toServer' = [toServer EXCEPT ![s] = ms]
    PROVE  ToServerInv'
<1>1. ms \in Seq(Messages)
  BY MailIsMessages, SeqMonotonic
<1>2. \A t \in Senders : toServer'[t] = IF t = s THEN ms ELSE toServer[t]
  BY DEF ToServerInv
<1>3. toServer' \in [Senders -> Seq(Messages)]
  BY <1>1 DEF ToServerInv
<1>4. \A t \in Senders : toServer'[t] \in Seq(MailToServer(t))
  BY <1>2 DEF ToServerInv
<1>. QED
  BY <1>3, <1>4 DEF ToServerInv, MailToServer, DataEndpoint

LEMMA ToClientKept ==
    ASSUME ToClientInv, NEW to, toClient' = [d \in Clients |-> to[d]],
           \A d \in Clients : to[d] \in Seq(MailToClient(d))
    PROVE  ToClientInv'
<1>1. ASSUME NEW d \in Clients
      PROVE  to[d] \in Seq(Messages)
  BY MailIsMessages, SeqMonotonic
<1>. QED  BY <1>1 DEF ToClientInv, MailToClient, Peers, Neighbours, Adjacent, DataEndpoint

\* The server takes a message out of a channel.
LEMMA ReceiveAtServerKept ==
    ASSUME ToServerInv, NEW s \in Senders, NEW i \in DOMAIN toServer[s], ReceiveAtServer(s, i)
    PROVE  ToServerInv'
<1>1. RemoveAt(toServer[s], i) \in Seq(MailToServer(s))
  BY RemoveAtSeq DEF ToServerInv
<1>2. toServer' = [toServer EXCEPT ![s] = RemoveAt(toServer[s], i)]
  BY DEF ReceiveAtServer
<1>. QED  BY <1>1, <1>2, ToServerKept

\* A client takes a message out of its channel.
LEMMA ReceiveAtClientKept ==
    ASSUME ToClientInv, NEW c \in Clients, NEW i \in DOMAIN toClient[c],
           toClient' = [toClient EXCEPT ![c] = RemoveAt(@, i)]
    PROVE  ToClientInv'
<1>. DEFINE to == [toClient EXCEPT ![c] = RemoveAt(@, i)]
<1>1. RemoveAt(toClient[c], i) \in Seq(MailToClient(c))
  BY RemoveAtSeq DEF ToClientInv
<1>2. \A d \in Clients : to[d] = IF d = c THEN RemoveAt(toClient[c], i) ELSE toClient[d]
  BY DEF ToClientInv
<1>3. \A d \in Clients : to[d] \in Seq(MailToClient(d))
  BY <1>1, <1>2 DEF ToClientInv
<1>4. toClient' = [d \in Clients |-> to[d]]
  BY DEF ToClientInv
<1>. HIDE DEF to
<1>. QED  BY <1>3, <1>4, ToClientKept

\* The server sends true messages to one client.
LEMMA ReplyKept ==
    ASSUME ToClientInv, NEW c \in Clients, NEW ms \in Seq(MailToClient(c)),
           toClient' = [toClient EXCEPT ![c] = @ \o ms]
    PROVE  ToClientInv'
<1>. DEFINE to == [toClient EXCEPT ![c] = @ \o ms]
<1>1. toClient[c] \o ms \in Seq(MailToClient(c))
  BY ConcatProperties DEF ToClientInv
<1>2. \A d \in Clients : to[d] = IF d = c THEN toClient[c] \o ms ELSE toClient[d]
  BY DEF ToClientInv
<1>3. \A d \in Clients : to[d] \in Seq(MailToClient(d))
  BY <1>1, <1>2 DEF ToClientInv
<1>4. toClient' = [d \in Clients |-> to[d]]
  BY DEF ToClientInv
<1>. HIDE DEF to
<1>. QED  BY <1>3, <1>4, ToClientKept

\* The server answers the client whose message it has taken.
LEMMA ReceiveAndReplyKept ==
    ASSUME ToServerInv, ToClientInv, NEW c \in Clients, NEW i \in DOMAIN toServer[c],
           NEW ms \in Seq(MailToClient(c)), ReceiveAndReply(c, i, ms)
    PROVE  ToServerInv' /\ ToClientInv'
<1>1. c \in Senders
  BY DEF Senders
<1>2. ToServerInv'
  BY <1>1, ReceiveAtServerKept DEF ReceiveAndReply
<1>3. ToClientInv'
  BY ReplyKept DEF ReceiveAndReply
<1>. QED  BY <1>2, <1>3

\* A client answers the server, or sends to it unasked.
LEMMA SendKept ==
    ASSUME ToServerInv, NEW c \in Clients, NEW ms \in Seq(MailToServer(c)),
           toServer' = [toServer EXCEPT ![c] = @ \o ms]
    PROVE  ToServerInv'
<1>1. toServer[c] \o ms \in Seq(MailToServer(c))
  BY ConcatProperties DEF ToServerInv, Senders
<1>2. toServer' = [toServer EXCEPT ![c] = toServer[c] \o ms]
  OBVIOUS
<1>. QED  BY <1>1, <1>2, ToServerKept DEF Senders

LEMMA SendToServerKept ==
    ASSUME ToServerInv, ToClientInv, NEW c \in Clients, NEW m \in MailToServer(c),
           SendToServer(c, m)
    PROVE  ToServerInv' /\ ToClientInv'
<1>1. Append(toServer[c], m) \in Seq(MailToServer(c))
  BY AppendProperties DEF ToServerInv, Senders
<1>2. toServer' = [toServer EXCEPT ![c] = Append(toServer[c], m)]
  BY DEF SendToServer
<1>3. ToServerInv'
  BY <1>1, <1>2, ToServerKept DEF Senders
<1>4. ToClientInv'
  BY DEF SendToServer, ToClientInv, MailToClient, Peers, Neighbours, Adjacent, DataEndpoint
<1>. QED  BY <1>3, <1>4

-----------------------------------------------------------------------------
(* The server's handlers *)

\* Whoever executeOnNeighbor visits is a peer, with its own endpoint and role.
LEMMA VisitedPeer ==
    ASSUME GraphInv, ParticipantsInv, NEW c \in Clients, NEW visit \in Visits(RoleOf[c])
    PROVE  LET participant == participants[visit[3]]
               owner == participant.managerEndpoint
           IN  /\ owner \in Peers(c)
               /\ c \in Peers(owner)
               /\ participant.dataEndpoint = DataEndpoint(owner)
               /\ participant.roleId = RoleOf[owner]
<1>. DEFINE participant == participants[visit[3]]
            owner == participant.managerEndpoint
            edge == roleGraphConnections[visit[2]]
<1>1. /\ visit[1] \in {1, 2}
      /\ visit[2] \in DOMAIN roleGraphConnections
      /\ visit[3] \in DOMAIN participants
      /\ edge[visit[1]] = RoleOf[c]
      /\ participant.roleId = edge[3 - visit[1]]
  BY DEF Visits
<1>2. /\ owner \in Clients
      /\ participant.dataEndpoint = DataEndpoint(owner)
      /\ participant.roleId = RoleOf[owner]
  BY <1>1 DEF ParticipantsInv, ParticipantInv, Participants
<1>3. PICK k \in DOMAIN RoleGraph : edge = RoleGraph[k]
  BY <1>1 DEF GraphInv
<1>4. edge = <<edge[1], edge[2]>>
  BY <1>3, RoleGraphEdges DEF Edges
<1>5. edge \in {<<RoleOf[c], RoleOf[owner]>>, <<RoleOf[owner], RoleOf[c]>>}
  <2>. HIDE DEF participant, owner, edge
  <2>1. CASE visit[1] = 1
    <3>0. 3 - visit[1] = 2
      BY <2>1
    <3>1. edge[1] = RoleOf[c] /\ edge[2] = RoleOf[owner]
      BY <1>1, <1>2, <2>1, <3>0, Zenon
    <3>. QED  BY <1>4, <3>1, Zenon
  <2>2. CASE visit[1] = 2
    <3>0. 3 - visit[1] = 1
      BY <2>2
    <3>1. edge[2] = RoleOf[c] /\ edge[1] = RoleOf[owner]
      BY <1>1, <1>2, <2>2, <3>0, Zenon
    <3>. QED  BY <1>4, <3>1, Zenon
  <2>. QED  BY <1>1, <2>1, <2>2
<1>6. Neighbours(c, owner) /\ Neighbours(owner, c)
  BY <1>3, <1>5 DEF Neighbours, Adjacent
<1>. QED  BY <1>2, <1>6 DEF Peers

\* What a handler of the server knows of the message it has received.
LEMMA ServerReceived ==
    ASSUME ToServerInv, NEW c \in Clients, NEW i, NEW t, ServerReceives(c, i, t)
    PROVE  /\ i \in DOMAIN toServer[c]
           /\ toServer[c][i] \in MailToServer(c)
           /\ toServer[c][i].type = t
<1>1. i \in DOMAIN toServer[c]
  BY ArrivedInDomain DEF ServerReceives
<1>2. toServer[c] \in Seq(MailToServer(c))
  BY DEF ToServerInv, Senders
<1>. QED  BY <1>1, <1>2, LenProperties DEF ServerReceives

\* One message is a sequence.
LEMMA OneMessage ==
    ASSUME NEW S, NEW m \in S
    PROVE  <<m>> \in Seq(S)
<1>. QED  OBVIOUS

LEMMA RegisterKept ==
    ASSUME IInv, NEW c \in Clients, NEW i, UNCHANGED clientVars,
           \/ OnFirstRegister(c, i)
           \/ OnQueuedRegister(c, i)
           \/ OnLateRegister(c, i)
    PROVE  IInv'
<1>. USE IInvParts, IInvPartsPrimed
<1>1. i \in DOMAIN toServer[c]
  BY ServerReceived DEF OnFirstRegister, OnQueuedRegister, OnLateRegister
<1>2. /\ <<RoleGraphRequest>> \in Seq(MailToClient(c))
      /\ <<>> \in Seq(MailToClient(c))
      /\ <<RolesComplete>> \in Seq(MailToClient(c))
  BY OneMessage DEF MailToClient
<1>3. ToServerInv' /\ ToClientInv'
  BY <1>1, <1>2, ReceiveAndReplyKept DEF OnFirstRegister, OnQueuedRegister, OnLateRegister
<1>4. UNCHANGED <<roleGraphConnections, participants, server, clientVars>>
  BY DEF OnFirstRegister, OnQueuedRegister, OnLateRegister, serverVars
<1>5. GraphInv' /\ ParticipantsInv' /\ MapsInv'
  BY <1>4 DEF GraphInv, ParticipantsInv, ParticipantInv, MapsInv, clientVars,
              PeerEndpoints, Peers, Neighbours, Adjacent, DataEndpoint
<1>6. state' \in States
  BY DEF OnFirstRegister, OnQueuedRegister, OnLateRegister, serverVars, ControlInv, States
<1>7. registerQueue' \in Seq(Clients)
  <2>1. registerQueue' \in {registerQueue, Append(registerQueue, c)}
    BY DEF OnFirstRegister, OnQueuedRegister, OnLateRegister, serverVars
  <2>2. registerQueue \in Seq(Clients) /\ Append(registerQueue, c) \in Seq(Clients)
    BY AppendProperties DEF ControlInv
  <2>. QED  BY <2>1, <2>2
<1>8. ControlInv'
  BY <1>4, <1>6, <1>7 DEF ControlInv, clientVars
<1>. QED  BY <1>3, <1>5, <1>8

LEMMA AddRoleConnectionKept ==
    ASSUME IInv, NEW c \in Clients, NEW i, UNCHANGED clientVars, OnAddRoleConnection(c, i)
    PROVE  IInv'
<1>. USE IInvParts, IInvPartsPrimed
<1>. DEFINE m == toServer[c][i]
<1>1. /\ i \in DOMAIN toServer[c]
      /\ m \in MailToServer(c)
      /\ m.type = "AddRoleConnection"
  BY ServerReceived DEF OnAddRoleConnection
<1>. HIDE DEF m
<1>2. PICK k \in DOMAIN RoleGraph : m = AddRoleConnection(RoleGraph[k])
  BY <1>1, ClientMessage
<1>3. <<m>> \in Seq(MailToClient(c))
  BY <1>2, OneMessage DEF MailToClient
<1>4. ToServerInv' /\ ToClientInv'
  BY <1>1, <1>3, ReceiveAndReplyKept DEF OnAddRoleConnection, m
<1>5. GraphInv'
  <2>1. m.edge = RoleGraph[k]
    BY <1>2 DEF AddRoleConnection
  <2>2. roleGraphConnections' = Append(roleGraphConnections, RoleGraph[k])
    BY <2>1 DEF OnAddRoleConnection, m
  <2>3. RoleGraph[k] \in Edges
    BY RoleGraphEdges
  <2>. QED  BY <2>2, <2>3, AppendProperties DEF GraphInv
<1>6. ParticipantsInv' /\ MapsInv'
  BY DEF OnAddRoleConnection, ParticipantsInv, ParticipantInv, MapsInv, clientVars,
         PeerEndpoints, Peers, Neighbours, Adjacent, DataEndpoint
<1>7. ControlInv'
  BY DEF OnAddRoleConnection, ControlInv, clientVars
<1>. QED  BY <1>4, <1>5, <1>6, <1>7

LEMMA RolesCompleteKept ==
    ASSUME IInv, NEW c \in Clients, NEW i, UNCHANGED clientVars, OnRolesComplete(c, i)
    PROVE  IInv'
<1>. USE IInvParts, IInvPartsPrimed
<1>. DEFINE to == [d \in Clients |-> toClient[d] \o Releases(d)]
<1>1. i \in DOMAIN toServer[c]
  BY ServerReceived DEF OnRolesComplete
<1>2. ToServerInv'
  BY <1>1, ReceiveAtServerKept DEF OnRolesComplete, Senders
<1>3. ASSUME NEW d \in Clients
      PROVE  to[d] \in Seq(MailToClient(d))
  <2>1. RolesComplete \in MailToClient(d)
    BY DEF MailToClient
  <2>2. Releases(d) \in Seq(MailToClient(d))
    BY <2>1, ReleasesSeq DEF IInv, TypeOK
  <2>3. toClient[d] \in Seq(MailToClient(d))
    BY DEF ToClientInv
  <2>. QED  BY <2>2, <2>3, ConcatProperties
<1>4. toClient' = [d \in Clients |-> to[d]]
  BY DEF OnRolesComplete
<1>. HIDE DEF to
<1>5. ToClientInv'
  BY <1>3, <1>4, ToClientKept
<1>6. GraphInv' /\ ParticipantsInv' /\ MapsInv'
  BY DEF OnRolesComplete, GraphInv, ParticipantsInv, ParticipantInv, MapsInv, clientVars,
         PeerEndpoints, Peers, Neighbours, Adjacent, DataEndpoint
<1>7. ControlInv'
  BY DEF OnRolesComplete, ControlInv, clientVars, States
<1>. QED  BY <1>2, <1>5, <1>6, <1>7

\* The announcements to a client that embodies are about its peers.
LEMMA AnnouncementsSeq ==
    ASSUME ServerTypeOK, GraphInv, ParticipantsInv, NEW c \in Clients,
           NEW calls \in CallOrders(RoleOf[c])
    PROVE  Announcements(calls) \in Seq(MailToClient(c))
<1>1. calls \in Seq(Visits(RoleOf[c]))
  BY CallOrdersSeq
<1>2. /\ Len(calls) \in Nat
      /\ DOMAIN calls = 1 .. Len(calls)
      /\ \A k \in 1 .. Len(calls) : calls[k] \in Visits(RoleOf[c])
  BY <1>1, LenProperties
<1>. DEFINE a(k) == Announce(participants[calls[k][3]].dataEndpoint,
                             participants[calls[k][3]].roleId)
<1>3. \A k \in 1 .. Len(calls) : a(k) \in MailToClient(c)
  BY <1>2, VisitedPeer DEF MailToClient
<1>4. Announcements(calls) = [k \in 1 .. Len(calls) |-> a(k)]
  BY <1>2 DEF Announcements
<1>. HIDE DEF a
<1>. QED  BY <1>2, <1>3, <1>4, IsASeq

LEMMA EmbodyKept ==
    ASSUME IInv, NEW c \in Clients, NEW i, UNCHANGED clientVars, OnEmbody(c, i)
    PROVE  IInv'
<1>. USE IInvParts, IInvPartsPrimed
<1>. DEFINE embody == Embody(DataEndpoint(c), RoleOf[c])
            participant == [dataEndpoint |-> DataEndpoint(c),
                            managerEndpoint |-> c, roleId |-> RoleOf[c]]
<1>1. /\ i \in DOMAIN toServer[c]
      /\ toServer[c][i] = Embody(LocalEndpoint[c], RoleOf[c])
  BY ServerReceived, ClientMessage DEF OnEmbody
<1>2. /\ toServer[c][i].endpoint = LocalEndpoint[c]
      /\ toServer[c][i].roleId = RoleOf[c]
      /\ normalize(toServer[c][i].endpoint, c) = DataEndpoint(c)
  BY <1>1, DataEndpointType DEF Embody
<1>3. PICK calls \in CallOrders(RoleOf[c]) :
        toClient' = [d \in Clients |->
            toClient[d] \o (IF d = c THEN Announcements(calls) ELSE <<>>)
                        \o CopiesFor(d, RoleOf[c], embody)]
  BY <1>2, Zenon DEF OnEmbody
<1>4. participants' = SetParticipant(LocalEndpoint[c], participant)
  BY <1>2 DEF OnEmbody
<1>. DEFINE to == [d \in Clients |->
            toClient[d] \o (IF d = c THEN Announcements(calls) ELSE <<>>)
                        \o CopiesFor(d, RoleOf[c], embody)]
<1>5. ASSUME NEW d \in Clients
      PROVE  to[d] \in Seq(MailToClient(d))
  <2>1. toClient[d] \in Seq(MailToClient(d))
    BY DEF ToClientInv
  <2>2. (IF d = c THEN Announcements(calls) ELSE <<>>) \in Seq(MailToClient(d))
    BY AnnouncementsSeq DEF IInv, TypeOK
  <2>3. (\E visit \in Visits(RoleOf[c]) : participants[visit[3]].managerEndpoint = d)
            => embody \in MailToClient(d)
    BY VisitedPeer DEF MailToClient
  <2>4. CopiesFor(d, RoleOf[c], embody) \in Seq(MailToClient(d))
    BY <2>3, CopiesForSeq DEF IInv, TypeOK
  <2>. QED  BY <2>1, <2>2, <2>4, ConcatProperties
<1>6. toClient' = [d \in Clients |-> to[d]]
  BY <1>3
<1>. HIDE DEF to
<1>7. ToClientInv'
  BY <1>5, <1>6, ToClientKept
<1>8. ToServerInv'
  BY <1>1, ReceiveAtServerKept DEF OnEmbody, Senders
<1>9. ParticipantsInv'
  <2>1. LocalEndpoint[c] \in Endpoints /\ RoleOf[c] \in Roles /\ DataEndpoint(c) \in Endpoints
    BY EndpointAssumption, RoleAssumption, DataEndpointType
  <2>2. DOMAIN participants' = DOMAIN participants \cup {LocalEndpoint[c]}
    BY <1>4 DEF SetParticipant
  <2>3. IsFiniteSet(DOMAIN participants')
    BY <2>2, FS_AddElement DEF ParticipantsInv
  <2>4. \A key \in DOMAIN participants' :
            participants'[key] = IF key = LocalEndpoint[c] THEN participant ELSE participants[key]
    BY <1>4, <2>2 DEF SetParticipant
  <2>5. \A key \in DOMAIN participants' : ParticipantInv(key)'
    BY <2>1, <2>2, <2>4 DEF ParticipantsInv, ParticipantInv, Participants, DataEndpoint
  <2>. QED  BY <2>1, <2>2, <2>3, <2>5 DEF ParticipantsInv
<1>10. GraphInv' /\ MapsInv'
  BY DEF OnEmbody, GraphInv, MapsInv, clientVars,
         PeerEndpoints, Peers, Neighbours, Adjacent, DataEndpoint
<1>11. ControlInv'
  BY DEF OnEmbody, ControlInv, clientVars
<1>. QED  BY <1>7, <1>8, <1>9, <1>10, <1>11

\* The acknowledgement of a Disembody is the client's own message.
LEMMA DisembodyMessage ==
    ASSUME ToServerInv, NEW c \in Clients, NEW i, ServerReceives(c, i, "Disembody")
    PROVE  /\ i \in DOMAIN toServer[c]
           /\ toServer[c][i] \in MailToClient(c)
<1>1. /\ i \in DOMAIN toServer[c]
      /\ toServer[c][i] = Disembody(LocalEndpoint[c])
  BY ServerReceived, ClientMessage
<1>. QED  BY <1>1 DEF MailToClient

LEMMA DisembodyKept ==
    ASSUME IInv, NEW c \in Clients, NEW i, UNCHANGED clientVars, OnDisembody(c, i)
    PROVE  IInv'
<1>. USE IInvParts, IInvPartsPrimed
<1>. DEFINE m == toServer[c][i]
            participant == participants[m.endpoint]
            disembody == Disembody(participant.dataEndpoint)
            to == [d \in Clients |->
                toClient[d] \o (IF d = c THEN <<m>> ELSE <<>>)
                            \o CopiesFor(d, participant.roleId, disembody)]
<1>1. i \in DOMAIN toServer[c] /\ m \in MailToClient(c)
  BY DisembodyMessage DEF OnDisembody
<1>2. /\ m.endpoint \in DOMAIN participants
      /\ toClient' = [d \in Clients |-> to[d]]
      /\ participants' = EraseParticipant(m.endpoint)
  BY DEF OnDisembody
<1>3. ASSUME NEW d \in Clients
      PROVE  to[d] \in Seq(MailToClient(d))
  <2>1. toClient[d] \in Seq(MailToClient(d))
    BY DEF ToClientInv
  <2>2. (IF d = c THEN <<m>> ELSE <<>>) \in Seq(MailToClient(d))
    BY <1>1, OneMessage
  <2>3. PICK owner \in Clients :
            /\ participant.dataEndpoint = DataEndpoint(owner)
            /\ participant.roleId = RoleOf[owner]
    BY <1>2 DEF ParticipantsInv, ParticipantInv, Participants
  <2>4. (\E visit \in Visits(participant.roleId) : participants[visit[3]].managerEndpoint = d)
            => disembody \in MailToClient(d)
    <3>1. (\E visit \in Visits(RoleOf[owner]) : participants[visit[3]].managerEndpoint = d)
            => owner \in Peers(d)
      BY VisitedPeer
    <3>. QED  BY <2>3, <3>1 DEF MailToClient
  <2>5. CopiesFor(d, participant.roleId, disembody) \in Seq(MailToClient(d))
    BY <2>4, CopiesForSeq DEF IInv, TypeOK
  <2>. QED  BY <2>1, <2>2, <2>5, ConcatProperties
<1>4. ToClientInv'
  <2>. HIDE DEF to
  <2>. QED  BY <1>2, <1>3, ToClientKept
<1>5. ToServerInv'
  BY <1>1, ReceiveAtServerKept DEF OnDisembody, Senders
<1>6. ParticipantsInv'
  <2>. HIDE DEF m
  <2>1. DOMAIN participants' = DOMAIN participants \ {m.endpoint}
    BY <1>2 DEF EraseParticipant
  <2>2. \A key \in DOMAIN participants' : participants'[key] = participants[key]
    BY <1>2, <2>1 DEF EraseParticipant
  <2>3. IsFiniteSet(DOMAIN participants')
    BY <2>1, FS_Subset DEF ParticipantsInv
  <2>4. \A key \in DOMAIN participants' : ParticipantInv(key)'
    BY <2>1, <2>2 DEF ParticipantsInv, ParticipantInv, Participants, DataEndpoint
  <2>. QED  BY <2>1, <2>3, <2>4 DEF ParticipantsInv
<1>7. GraphInv' /\ MapsInv'
  BY DEF OnDisembody, GraphInv, MapsInv, clientVars,
         PeerEndpoints, Peers, Neighbours, Adjacent, DataEndpoint
<1>8. ControlInv'
  BY DEF OnDisembody, ControlInv, clientVars
<1>. QED  BY <1>4, <1>5, <1>6, <1>7, <1>8

LEMMA DisembodyUnknownKept ==
    ASSUME IInv, NEW c \in Clients, NEW i, UNCHANGED clientVars, OnDisembodyUnknown(c, i)
    PROVE  IInv'
<1>. USE IInvParts, IInvPartsPrimed
<1>1. i \in DOMAIN toServer[c] /\ <<toServer[c][i]>> \in Seq(MailToClient(c))
  BY DisembodyMessage, OneMessage DEF OnDisembodyUnknown
<1>2. ToServerInv' /\ ToClientInv'
  BY <1>1, ReceiveAndReplyKept DEF OnDisembodyUnknown
<1>3. GraphInv' /\ ParticipantsInv' /\ MapsInv'
  BY DEF OnDisembodyUnknown, GraphInv, ParticipantsInv, ParticipantInv, MapsInv, clientVars,
         PeerEndpoints, Peers, Neighbours, Adjacent, DataEndpoint
<1>4. ControlInv'
  BY DEF OnDisembodyUnknown, ControlInv, clientVars
<1>. QED  BY <1>2, <1>3, <1>4

\* Stopping the server touches nothing but its own channel and status.
LEMMA ServerStopKept ==
    ASSUME IInv, UNCHANGED clientVars, ServerStop \/ ServerCloses
    PROVE  IInv'
<1>. USE IInvParts, IInvPartsPrimed
<1>1. ToServerInv'
  <2>1. CASE ServerStop
    <3>1. ServerClose \in MailToServer(Server)
      BY DEF MailToServer
    <3>2. Append(toServer[Server], ServerClose) \in Seq(MailToServer(Server))
      BY <3>1, AppendProperties DEF ToServerInv, Senders
    <3>3. toServer' = [toServer EXCEPT ![Server] = Append(toServer[Server], ServerClose)]
      BY <2>1 DEF ServerStop
    <3>. QED  BY <3>2, <3>3, ToServerKept DEF Senders
  <2>2. CASE ServerCloses
    <3>1. PICK i \in DOMAIN toServer[Server] : OnServerClose(i)
      BY <2>2, ArrivedInDomain DEF ServerCloses
    <3>. QED  BY <3>1, ReceiveAtServerKept DEF OnServerClose, Senders
  <2>. QED  BY <2>1, <2>2
<1>2. UNCHANGED <<toClient, state, roleGraphConnections, participants, registerQueue>>
  BY DEF ServerStop, ServerCloses, OnServerClose, serverVars
<1>3. ToClientInv' /\ GraphInv' /\ ParticipantsInv' /\ MapsInv'
  BY <1>2 DEF ToClientInv, GraphInv, ParticipantsInv, ParticipantInv, MapsInv, clientVars,
              MailToClient, PeerEndpoints, Peers, Neighbours, Adjacent, DataEndpoint
<1>4. server' \in {"receiving", "stopped", "failed"}
  BY DEF ServerStop, ServerCloses, OnServerClose, serverVars, ControlInv
<1>5. ControlInv'
  BY <1>2, <1>4 DEF ControlInv, clientVars
<1>. QED  BY <1>1, <1>3, <1>5

-----------------------------------------------------------------------------
(* The clients *)

\* The answer to RoleGraphRequest.
LEMMA RoleGraphReplySeq ==
    ASSUME NEW c \in Clients
    PROVE  RoleGraphReply \in Seq(MailToServer(c))
<1>. DEFINE edges == [k \in 1 .. Len(RoleGraph) |-> AddRoleConnection(RoleGraph[k])]
<1>1. c # Server
  BY ClientsAssumption
<1>2. Len(RoleGraph) \in Nat /\ DOMAIN RoleGraph = 1 .. Len(RoleGraph)
  BY RoleAssumption, LenProperties
<1>3. \A k \in 1 .. Len(RoleGraph) : AddRoleConnection(RoleGraph[k]) \in MailToServer(c)
  BY <1>1, <1>2 DEF MailToServer
<1>4. edges \in Seq(MailToServer(c))
  BY <1>2, <1>3, IsASeq
<1>5. <<RolesComplete>> \in Seq(MailToServer(c))
  BY <1>1, OneMessage DEF MailToServer
<1>. HIDE DEF edges
<1>6. edges \o <<RolesComplete>> \in Seq(MailToServer(c))
  BY <1>4, <1>5, ConcatProperties
<1>. QED  BY <1>6 DEF RoleGraphReply, edges

\* A client that takes a message and answers with true messages.
LEMMA ReceiveAndSendKept ==
    ASSUME ToServerInv, ToClientInv, NEW c \in Clients, NEW i \in DOMAIN toClient[c],
           NEW ms \in Seq(MailToServer(c)), ReceiveAndSend(c, i, ms)
    PROVE  ToServerInv' /\ ToClientInv'
<1>1. ToServerInv'
  BY SendKept DEF ReceiveAndSend
<1>2. ToClientInv'
  BY ReceiveAtClientKept DEF ReceiveAndSend
<1>. QED  BY <1>1, <1>2

LEMMA ReceiveOnlyKept ==
    ASSUME ToServerInv, ToClientInv, NEW c \in Clients, NEW i \in DOMAIN toClient[c],
           ReceiveAtClient(c, i)
    PROVE  ToServerInv' /\ ToClientInv'
<1>1. ToServerInv'
  BY DEF ReceiveAtClient, ToServerInv, MailToServer
<1>2. ToClientInv'
  BY ReceiveAtClientKept DEF ReceiveAtClient
<1>. QED  BY <1>1, <1>2

\* What a client's program calls, its constructor and the end of its threads or of
\* its process.
LEMMA ClientControlKept ==
    ASSUME IInv, NEW c \in Clients, UNCHANGED serverVars,
           \/ Construct(c) \/ Stop(c) \/ Joined(c) \/ Crash(c)
           \/ \E i \in DOMAIN toClient[c] :
                \/ OnRoleGraphRequest(c, i)
                \/ OnAddRoleConnectionAck(c, i)
                \/ OnContextReady(c, i)
                \/ OnDisembodyAck(c, i)
                \/ OnUnhandled(c, i)
    PROVE  IInv'
<1>. USE IInvParts, IInvPartsPrimed
<1>1. c # Server
  BY ClientsAssumption
<1>2. /\ Register \in MailToServer(c)
      /\ Disembody(LocalEndpoint[c]) \in MailToServer(c)
      /\ <<Embody(LocalEndpoint[c], RoleOf[c])>> \in Seq(MailToServer(c))
  BY <1>1, OneMessage DEF MailToServer
<1>3. ToServerInv' /\ ToClientInv'
  <2>1. CASE Construct(c) \/ Stop(c)
    BY <1>2, <2>1, SendToServerKept DEF Construct, Stop
  <2>2. CASE Joined(c) \/ Crash(c)
    BY <2>2 DEF Joined, Crash, networkVars, ToServerInv, ToClientInv, MailToServer, MailToClient,
                Peers, Neighbours, Adjacent, DataEndpoint
  <2>3. CASE \E i \in DOMAIN toClient[c] : OnRoleGraphRequest(c, i)
    BY <2>3, RoleGraphReplySeq, ReceiveAndSendKept DEF OnRoleGraphRequest
  <2>4. CASE \E i \in DOMAIN toClient[c] : OnContextReady(c, i)
    BY <1>2, <2>4, ReceiveAndSendKept DEF OnContextReady
  <2>5. CASE \E i \in DOMAIN toClient[c] :
                \/ OnAddRoleConnectionAck(c, i)
                \/ OnDisembodyAck(c, i)
                \/ OnUnhandled(c, i)
    BY <2>5, ReceiveOnlyKept DEF OnAddRoleConnectionAck, OnDisembodyAck, OnUnhandled
  <2>. QED  BY <2>1, <2>2, <2>3, <2>4, <2>5
<1>4. UNCHANGED roleEndpointMap
  BY DEF Construct, Stop, Joined, Crash, OnRoleGraphRequest, OnAddRoleConnectionAck, OnContextReady,
         OnDisembodyAck, OnUnhandled, clientVars
<1>5. GraphInv' /\ ParticipantsInv' /\ MapsInv'
  BY <1>4 DEF serverVars, GraphInv, ParticipantsInv, ParticipantInv, MapsInv,
              PeerEndpoints, Peers, Neighbours, Adjacent, DataEndpoint
<1>6. pc' \in [Clients -> ClientStates] /\ running' \in [Clients -> BOOLEAN]
  BY DEF Construct, Stop, Joined, Crash, OnRoleGraphRequest, OnAddRoleConnectionAck, OnContextReady,
         OnDisembodyAck, OnUnhandled, clientVars, ControlInv, ClientStates
<1>7. ControlInv'
  BY <1>6 DEF ControlInv, serverVars
<1>. QED  BY <1>3, <1>5, <1>7

\* A new map for client c, with true lists.
LEMMA MapsKept ==
    ASSUME MapsInv, NEW c \in Clients, NEW map \in [Roles -> Seq(Endpoints)],
           \A r \in Roles : map[r] \in Seq(PeerEndpoints(c, r)),
           roleEndpointMap' = [roleEndpointMap EXCEPT ![c] = map]
    PROVE  MapsInv'
<1>1. roleEndpointMap' \in [Clients -> [Roles -> Seq(Endpoints)]]
  BY DEF MapsInv
<1>2. \A d \in Clients : \A r \in Roles : roleEndpointMap'[d][r] \in Seq(PeerEndpoints(d, r))
  BY DEF MapsInv
<1>. QED  BY <1>1, <1>2 DEF MapsInv, PeerEndpoints, Peers, Neighbours, Adjacent, DataEndpoint

\* The endpoints of peers are endpoints.
LEMMA PeerEndpointsType ==
    ASSUME NEW c \in Clients, NEW r
    PROVE  PeerEndpoints(c, r) \subseteq Endpoints
<1>. QED  BY DataEndpointType DEF PeerEndpoints, Peers

LEMMA NeighbourKept ==
    ASSUME IInv, NEW c \in Clients, NEW i, NEW t \in {"Embody", "Announce"},
           OnNeighbour(c, i, t), UNCHANGED serverVars
    PROVE  IInv'
<1>. USE IInvParts, IInvPartsPrimed
<1>. DEFINE m == toClient[c][i]
            map == PushBack(roleEndpointMap[c], m)
<1>1. /\ i \in DOMAIN toClient[c]
      /\ m.type \in {"Embody", "Announce"}
  BY ArrivedInDomain DEF OnNeighbour, AliveReceives
<1>2. m \in MailToClient(c)
  BY <1>1, LenProperties DEF ToClientInv
<1>. HIDE DEF m
<1>3. m.roleId \in Roles /\ m.endpoint \in PeerEndpoints(c, m.roleId)
  BY <1>1, <1>2, PeerMessage
<1>4. roleEndpointMap[c] \in [Roles -> Seq(Endpoints)]
  BY DEF MapsInv
<1>5. Append(roleEndpointMap[c][m.roleId], m.endpoint) \in Seq(PeerEndpoints(c, m.roleId))
  BY <1>3, AppendProperties DEF MapsInv
<1>6. \A r \in Roles : map[r] \in Seq(PeerEndpoints(c, r))
  BY <1>3, <1>4, <1>5 DEF PushBack, MapsInv
<1>7. map \in [Roles -> Seq(Endpoints)]
  <2>1. Append(roleEndpointMap[c][m.roleId], m.endpoint) \in Seq(Endpoints)
    BY <1>3, <1>4, PeerEndpointsType, AppendProperties
  <2>. QED  BY <1>3, <1>4, <2>1 DEF PushBack
<1>8. roleEndpointMap' = [roleEndpointMap EXCEPT ![c] = map]
  BY DEF OnNeighbour, m
<1>. HIDE DEF map
<1>9. MapsInv'
  BY <1>6, <1>7, <1>8, MapsKept
<1>10. ToServerInv' /\ ToClientInv'
  BY <1>1, ReceiveOnlyKept DEF OnNeighbour
<1>11. GraphInv' /\ ParticipantsInv' /\ ControlInv'
  BY DEF OnNeighbour, serverVars, GraphInv, ParticipantsInv, ParticipantInv, ControlInv,
         DataEndpoint
<1>. QED  BY <1>9, <1>10, <1>11

LEMMA DisembodyOtherKept ==
    ASSUME IInv, NEW c \in Clients, NEW i, OnDisembodyOther(c, i), UNCHANGED serverVars
    PROVE  IInv'
<1>. USE IInvParts, IInvPartsPrimed
<1>. DEFINE erased(r) == EraseEndpoint(roleEndpointMap[c][r], ServerEndpoint,
                                       toClient[c][i].endpoint)
            map == [r \in Roles |-> erased(r)]
<1>1. i \in DOMAIN toClient[c]
  BY ArrivedInDomain DEF OnDisembodyOther, AliveReceives
<1>2. ASSUME NEW S, NEW s \in Seq(S)
      PROVE  EraseEndpoint(s, ServerEndpoint, toClient[c][i].endpoint) \in Seq(S)
  BY HeadTailProperties DEF EraseEndpoint
<1>3. \A r \in Roles : map[r] \in Seq(PeerEndpoints(c, r))
  BY <1>2 DEF MapsInv
<1>4. map \in [Roles -> Seq(Endpoints)]
  BY <1>2 DEF MapsInv
<1>5. roleEndpointMap' = [roleEndpointMap EXCEPT ![c] = map]
  BY DEF OnDisembodyOther
<1>. HIDE DEF map
<1>6. MapsInv'
  BY <1>3, <1>4, <1>5, MapsKept
<1>7. ToServerInv' /\ ToClientInv'
  BY <1>1, ReceiveOnlyKept DEF OnDisembodyOther
<1>8. GraphInv' /\ ParticipantsInv' /\ ControlInv'
  BY DEF OnDisembodyOther, serverVars, GraphInv, ParticipantsInv, ParticipantInv, ControlInv,
         DataEndpoint
<1>. QED  BY <1>6, <1>7, <1>8

\* A lost message is one that is taken out of its channel and handed to nobody.
LEMMA LossKept ==
    ASSUME IInv, NEW c \in Clients, LosesMessage(c), UNCHANGED <<serverVars, clientVars>>
    PROVE  IInv'
<1>. USE IInvParts, IInvPartsPrimed
<1>1. ToServerInv' /\ ToClientInv'
  <2>1. CASE \E i \in DOMAIN toServer[c] : ReceiveAtServer(c, i) /\ UNCHANGED toClient
    <3>1. ToServerInv'
      BY <2>1, ReceiveAtServerKept DEF Senders
    <3>2. ToClientInv'
      BY <2>1 DEF ToClientInv, MailToClient, Peers, Neighbours, Adjacent, DataEndpoint
    <3>. QED  BY <3>1, <3>2
  <2>2. CASE \E i \in DOMAIN toClient[c] : ReceiveAtClient(c, i)
    BY <2>2, ReceiveOnlyKept
  <2>. QED  BY <2>1, <2>2 DEF LosesMessage
<1>2. GraphInv' /\ ParticipantsInv' /\ MapsInv'
  BY DEF serverVars, clientVars, GraphInv, ParticipantsInv, ParticipantInv, MapsInv,
         PeerEndpoints, Peers, Neighbours, Adjacent, DataEndpoint
<1>3. ControlInv'
  BY DEF ControlInv, serverVars, clientVars
<1>. QED  BY <1>1, <1>2, <1>3

-----------------------------------------------------------------------------
(* The theorems *)

LEMMA InitIInv == Init => IInv
<1>. SUFFICES ASSUME Init PROVE IInv
  OBVIOUS
<1>1. ToServerInv /\ ToClientInv
  BY DEF Init, NetworkInit, ToServerInv, ToClientInv
<1>2. GraphInv
  BY DEF Init, ServerInit, GraphInv
<1>3. ParticipantsInv
  <2>1. DOMAIN participants = {}
    BY DEF Init, ServerInit
  <2>. QED  BY <2>1, FS_EmptySet DEF ParticipantsInv
<1>4. MapsInv
  BY DEF Init, ClientInit, MapsInv
<1>5. ControlInv
  BY DEF Init, ServerInit, ClientInit, ControlInv, States, ClientStates
<1>. QED  BY <1>1, <1>2, <1>3, <1>4, <1>5, IInvParts

LEMMA StepIInv == IInv /\ [Next]_vars => IInv'
<1>. SUFFICES ASSUME IInv, [Next]_vars PROVE IInv'
  OBVIOUS
<1>1. CASE ServerStep
  <2>1. UNCHANGED clientVars
    BY <1>1 DEF ServerStep
  <2>2. CASE ServerCloses
    BY <2>1, <2>2, ServerStopKept
  <2>3. ASSUME NEW c \in Clients, ServerHandles(c)
        PROVE  IInv'
    BY <2>1, <2>3, RegisterKept, AddRoleConnectionKept, RolesCompleteKept, EmbodyKept,
       DisembodyKept, DisembodyUnknownKept
       DEF ServerHandles
  <2>. QED  BY <1>1, <2>2, <2>3 DEF ServerStep
<1>2. CASE ServerCalled
  BY <1>2, ServerStopKept DEF ServerCalled
<1>3. ASSUME NEW c \in Clients, ClientStep(c)
      PROVE  IInv'
  <2>1. UNCHANGED serverVars
    BY <1>3 DEF ClientStep
  <2>2. CASE Joined(c)
    BY <2>1, <2>2, ClientControlKept
  <2>3. CASE ClientHandles(c)
    <3>1. PICK i \in DOMAIN toClient[c] :
            \/ OnRoleGraphRequest(c, i) \/ OnAddRoleConnectionAck(c, i)
            \/ OnContextReady(c, i) \/ OnDisembodyAck(c, i) \/ OnUnhandled(c, i)
            \/ OnDisembodyOther(c, i)
            \/ OnNeighbour(c, i, "Embody") \/ OnNeighbour(c, i, "Announce")
      BY <2>3, ArrivedInDomain DEF ClientHandles, OnEmbodyNeighbour, OnAnnounce
    <3>2. CASE OnDisembodyOther(c, i)
      BY <2>1, <3>2, DisembodyOtherKept
    <3>3. CASE OnNeighbour(c, i, "Embody") \/ OnNeighbour(c, i, "Announce")
      BY <2>1, <3>3, NeighbourKept
    <3>4. CASE \/ OnRoleGraphRequest(c, i) \/ OnAddRoleConnectionAck(c, i)
               \/ OnContextReady(c, i) \/ OnDisembodyAck(c, i) \/ OnUnhandled(c, i)
      BY <2>1, <3>4, ClientControlKept
    <3>. QED  BY <3>1, <3>2, <3>3, <3>4
  <2>. QED  BY <1>3, <2>2, <2>3 DEF ClientStep
<1>4. ASSUME NEW c \in Clients, UserCalls(c)
      PROVE  IInv'
  BY <1>4, ClientControlKept DEF UserCalls, ClientCalled
<1>5. ASSUME NEW c \in Clients, Loses(c)
      PROVE  IInv'
  BY <1>5, LossKept DEF Loses
<1>6. ASSUME NEW c \in Clients, Crashes(c)
      PROVE  IInv'
  BY <1>6, ClientControlKept DEF Crashes
<1>7. CASE UNCHANGED vars
  BY <1>7 DEF vars, networkVars, serverVars, clientVars, IInv, Truthful,
              NetworkTypeOK, ServerTypeOK, ClientTypeOK, MailToServer, MailToClient,
              PeerEndpoints, Peers, Neighbours, Adjacent, DataEndpoint
<1>. QED  BY <1>1, <1>2, <1>3, <1>4, <1>5, <1>6, <1>7 DEF Next

\* Only clients lose messages.
LEMMA LostKept ==
    ASSUME lost \subseteq Clients, [Next]_vars
    PROVE  lost' \subseteq Clients
<1>1. CASE UNCHANGED lost
  BY <1>1
<1>2. CASE \E c \in Clients : Loses(c)
  BY <1>2 DEF Loses
<1>3. UNCHANGED lost \/ \E c \in Clients : Loses(c)
  BY DEF Next, ServerStep, ServerCalled, ClientStep, UserCalls, Crashes, vars
<1>. QED  BY <1>1, <1>2, <1>3

\* Whatever the clients, the role graph and the order of delivery, every variable
\* keeps its type: the handlers of CracenServer.hpp and CracenClient.hpp exchange
\* messages their receivers can read.
THEOREM TypeCorrect == Spec => []TypeOK
<1>. DEFINE J == IInv /\ lost \subseteq Clients
<1>1. J => TypeOK
  BY DEF IInv, TypeOK
<1>2. Init => J
  BY InitIInv DEF Init
<1>3. J /\ [Next]_vars => J'
  BY StepIInv, LostKept
<1>. HIDE DEF J
<1>. QED  BY <1>1, <1>2, <1>3, PTL DEF Spec

\* Nothing false is ever said or recorded about a client (CracenServer.hpp:162-227).
THEOREM AlwaysTruthful == Spec => []Truthful
<1>1. IInv => Truthful
  BY DEF IInv
<1>. QED  BY InitIInv, StepIInv, <1>1, PTL DEF Spec

\* A client's role map holds only resolved endpoints of clients of neighbouring
\* roles (CracenClient.hpp:184-206), whatever is reordered or lost and
\* whoever stops or crashes.
THEOREM AlwaysOnlyNeighbours == Spec => []OnlyNeighbours
<1>1. Truthful => OnlyNeighbours
  BY LenProperties DEF Truthful, OnlyNeighbours
<1>. QED  BY InitIInv, StepIInv, <1>1, PTL DEF Spec, IInv

-----------------------------------------------------------------------------
(* Part 2: an ordered transport *)

\* The transport, and sockets no two of which are reached at one endpoint.
OrderedTransport == Ordered /\ ~Lossy
DistinctEndpoints ==
    /\ AnyHost \notin Hosts
    /\ \A c, d \in Clients : c # d =>
            LocalEndpoint[c] # LocalEndpoint[d] /\ DataEndpoint(c) # DataEndpoint(d)

-----------------------------------------------------------------------------
(* The inductive invariant: the phases of a client *)

\* Client c waits for the role graph, or has waited for it.
Queued(c) == \E k \in DOMAIN registerQueue : registerQueue[k] = c

\* The server has client c in its map.
Listed(c) == LocalEndpoint[c] \in DOMAIN participants

\* A message about another client.
IsNews(c, m) ==
    \/ m.type \in {"Embody", "Announce"}
    \/ m.type = "Disembody" /\ m.endpoint # LocalEndpoint[c]

Quiet(c) == toServer[c] = <<>> /\ toClient[c] = <<>>

\* Not constructed.
Outside(c) == pc[c] = "new" /\ Quiet(c) /\ ~Queued(c)

\* In the constructor (or crashed there), the Register on its way ...
Registering(c) ==
    /\ pc[c] \in {"context", "crashed"}
    /\ toServer[c] = <<Register>> /\ toClient[c] = <<>>
    /\ ~Queued(c)

\* ... or handled, and somebody else asked for the graph, ...
Waiting(c) ==
    /\ pc[c] \in {"context", "crashed"}
    /\ Quiet(c)
    /\ state = "ContextInizialising" /\ Queued(c) /\ registerQueue[1] # c

\* ... or this client, ...
Asked(c) ==
    /\ pc[c] \in {"context", "crashed"}
    /\ toServer[c] = <<>> /\ toClient[c] = <<RoleGraphRequest>>
    /\ state = "ContextInizialising" /\ Queued(c) /\ registerQueue[1] = c
    /\ roleGraphConnections = <<>>

\* ... which has answered: the server has the beginning of the graph, the rest and the
\* end mark are on their way to it, acknowledgements on their way back.
Supplying(c) ==
    /\ pc[c] \in {"context", "crashed"}
    /\ state = "ContextInizialising" /\ Queued(c) /\ registerQueue[1] = c
    /\ Len(roleGraphConnections) + Len(toServer[c]) = Len(RoleGraph) + 1
    /\ toServer[c] # <<>>
    /\ \A k \in 1 .. Len(roleGraphConnections) : roleGraphConnections[k] = RoleGraph[k]
    /\ \A k \in 1 .. Len(toServer[c]) :
        toServer[c][k] = IF k = Len(toServer[c]) THEN RolesComplete
                         ELSE AddRoleConnection(RoleGraph[Len(roleGraphConnections) + k])
    /\ \A k \in 1 .. Len(toClient[c]) : toClient[c][k].type = "AddRoleConnection"

\* Released, the end mark behind the acknowledgements.
Released(c) ==
    /\ pc[c] \in {"context", "crashed"}
    /\ state = "ContextInitialised"
    /\ toServer[c] = <<>> /\ toClient[c] # <<>>
    /\ \A k \in 1 .. Len(toClient[c]) :
        toClient[c][k].type = IF k = Len(toClient[c]) THEN "RolesComplete"
                              ELSE "AddRoleConnection"

\* Out of the constructor, the Embody on its way, perhaps the Disembody behind it.
Embodying(c) ==
    /\ state = "ContextInitialised"
    /\ toClient[c] = <<>>
    /\ \/ /\ pc[c] \in {"running", "crashed"}
          /\ toServer[c] = <<Embody(LocalEndpoint[c], RoleOf[c])>>
       \/ /\ pc[c] \in {"joining", "crashed"}
          /\ toServer[c] = <<Embody(LocalEndpoint[c], RoleOf[c]), Disembody(LocalEndpoint[c])>>

\* In the map of the server.
Participating(c) ==
    /\ state = "ContextInitialised"
    /\ \/ pc[c] \in {"running", "crashed"} /\ toServer[c] = <<>>
       \/ pc[c] \in {"joining", "crashed"} /\ toServer[c] = <<Disembody(LocalEndpoint[c])>>
    /\ \A k \in 1 .. Len(toClient[c]) : IsNews(c, toClient[c][k])

\* Out of the map; behind the acknowledgement there is only what a client whose role is
\* its own neighbour is told of itself.
Dismissed(c) ==
    /\ state = "ContextInitialised"
    /\ pc[c] \in {"joining", "crashed"}
    /\ toServer[c] = <<>>
    /\ \E i \in 1 .. Len(toClient[c]) :
        /\ toClient[c][i] = Disembody(LocalEndpoint[c])
        /\ \A k \in 1 .. i - 1 : IsNews(c, toClient[c][k])
        /\ i # Len(toClient[c]) => Neighbours(c, c)

\* The management thread has ended.
Departed(c) ==
    /\ state = "ContextInitialised"
    /\ pc[c] \in {"joining", "closed", "crashed"}
    /\ toServer[c] = <<>>
    /\ toClient[c] # <<>> => Neighbours(c, c)

Phase(c) ==
    \/ Listed(c) /\ running[c] /\ Participating(c)
    \/ ~Listed(c) /\ running[c]
        /\ \/ Outside(c) \/ Registering(c) \/ Waiting(c) \/ Asked(c) \/ Supplying(c)
           \/ Released(c) \/ Embodying(c) \/ Dismissed(c)
    \/ ~Listed(c) /\ ~running[c] /\ Departed(c)

\* The server keeps who has registered once, in order, and every participant under the
\* endpoint it knows itself by.
ServerPhase ==
    /\ server # "failed"
    /\ state = "ContextUninitialised" => registerQueue = <<>> /\ roleGraphConnections = <<>>
    /\ state = "ContextInizialising" => registerQueue # <<>>
    /\ state = "ContextInitialised" => roleGraphConnections = RoleGraph
    /\ \A i, j \in DOMAIN registerQueue : registerQueue[i] = registerQueue[j] => i = j
    /\ \A key \in DOMAIN participants :
        key = LocalEndpoint[participants[key].managerEndpoint]

OrderedInv == IInv /\ ServerPhase /\ \A c \in Clients : Phase(c)

-----------------------------------------------------------------------------
(* Channels *)

\* Over ordered channels it is always the first message that is taken.
LEMMA TakesFirst ==
    ASSUME NEW S, NEW s \in Seq(S), s # <<>>
    PROVE  /\ RemoveAt(s, 1) = Tail(s) /\ Tail(s) \in Seq(S)
           /\ Len(s) \in Nat \ {0} /\ DOMAIN s = 1 .. Len(s) /\ s[1] \in S
           /\ Len(Tail(s)) = Len(s) - 1
           /\ \A i \in 1 .. Len(s) - 1 : Tail(s)[i] = s[i + 1]
           /\ Len(s) = 1 => Tail(s) = <<>>
<1>1. Len(s) \in Nat /\ DOMAIN s = 1 .. Len(s) /\ Len(s) # 0
  BY LenProperties, EmptySeq
<1>2. /\ Tail(s) \in Seq(S)
      /\ Len(Tail(s)) = Len(s) - 1
      /\ \A i \in 1 .. Len(Tail(s)) : Tail(s)[i] = s[i + 1]
  BY <1>1, HeadTailProperties
<1>3. RemoveAt(s, 1) = Tail(s)
  <2>1. SubSeq(s, 1, 1 - 1) = <<>>
    BY <1>1, SubSeqProperties, EmptySeq
  <2>2. /\ SubSeq(s, 1 + 1, Len(s)) \in Seq(S)
        /\ Len(SubSeq(s, 2, Len(s))) = Len(s) - 1
        /\ \A i \in 1 .. Len(s) - 1 : SubSeq(s, 2, Len(s))[i] = s[i + 1]
    <3>1. 2 \in 1 .. Len(s) + 1 /\ Len(s) \in 2 - 1 .. Len(s)
      BY <1>1
    <3>. QED  BY <1>1, <3>1, SubSeqProperties
  <2>3. SubSeq(s, 2, Len(s)) = Tail(s)
    BY <1>1, <1>2, <2>2, SeqEqual
  <2>. QED  BY <1>2, <2>1, <2>3, ConcatEmptySeq DEF RemoveAt
<1>4. ASSUME Len(s) = 1
      PROVE  Tail(s) = <<>>
  <2>1. Len(Tail(s)) = 0
    BY <1>2, <1>4
  <2>. QED  BY <1>2, <2>1, EmptySeq
<1>5. s[1] \in S
  BY <1>1, ElementOfSeq
<1>. QED  BY <1>1, <1>2, <1>3, <1>4, <1>5

LEMMA FirstArrives ==
    ASSUME OrderedTransport, NEW S, NEW s \in Seq(S), NEW i \in Arrived(s)
    PROVE  i = 1 /\ s # <<>>
<1>1. DOMAIN s = 1 .. Len(s) /\ Len(s) \in Nat
  BY LenProperties
<1>2. i = 1 /\ i \in DOMAIN s
  BY DEF Arrived, OrderedTransport
<1>. QED  BY <1>1, <1>2

\* A handler of the server takes the first message of client c ...
LEMMA ServerTakes ==
    ASSUME OrderedTransport, IInv, NEW c \in Clients, NEW i, NEW t,
           ServerReceives(c, i, t), ReceiveAtServer(c, i)
    PROVE  /\ i = 1 /\ toServer[c] # <<>> /\ toServer[c][1].type = t
           /\ toServer'[c] = Tail(toServer[c])
           /\ \A d \in Senders \ {c} : toServer'[d] = toServer[d]
           /\ toServer[c] \in Seq(Messages) /\ toServer[c] \in Seq(MailToServer(c))
<1>1. /\ toServer[c] \in Seq(Messages) /\ toServer[c] \in Seq(MailToServer(c))
      /\ toServer \in [Senders -> Seq(Messages)] /\ c \in Senders
  BY DEF IInv, NetworkTypeOK, Truthful, Senders
<1>2. i = 1 /\ toServer[c] # <<>>
  BY <1>1, FirstArrives DEF ServerReceives
<1>3. toServer' = [toServer EXCEPT ![c] = Tail(toServer[c])]
  BY <1>1, <1>2, TakesFirst DEF ReceiveAtServer
<1>. QED  BY <1>1, <1>2, <1>3 DEF ServerReceives

\* ... and a thread of client c the first message of the server.
LEMMA ClientTakes ==
    ASSUME OrderedTransport, IInv, NEW c \in Clients, NEW i \in Arrived(toClient[c]),
           toClient' = [toClient EXCEPT ![c] = RemoveAt(@, i)]
    PROVE  /\ i = 1 /\ toClient[c] # <<>>
           /\ toClient'[c] = Tail(toClient[c])
           /\ \A d \in Clients \ {c} : toClient'[d] = toClient[d]
           /\ toClient[c] \in Seq(Messages) /\ toClient[c] \in Seq(MailToClient(c))
<1>1. /\ toClient[c] \in Seq(Messages) /\ toClient[c] \in Seq(MailToClient(c))
      /\ toClient \in [Clients -> Seq(Messages)]
  BY DEF IInv, NetworkTypeOK, Truthful
<1>2. i = 1 /\ toClient[c] # <<>>
  BY <1>1, FirstArrives
<1>3. toClient' = [toClient EXCEPT ![c] = Tail(toClient[c])]
  BY <1>1, <1>2, TakesFirst
<1>. QED  BY <1>1, <1>2, <1>3

-----------------------------------------------------------------------------
(* What can be met in which phase *)

\* A message that arrives at the server tells the phase of its sender.
LEMMA ServerMeets ==
    ASSUME IInv, NEW c \in Clients, Phase(c), toServer[c] # <<>>
    PROVE  /\ running[c]
           /\ toServer[c][1].type = "Register" => ~Listed(c) /\ Registering(c)
           /\ toServer[c][1].type \in {"AddRoleConnection", "RolesComplete"} =>
                    ~Listed(c) /\ Supplying(c)
           /\ toServer[c][1].type = "Embody" => ~Listed(c) /\ Embodying(c)
           /\ toServer[c][1].type = "Disembody" => Listed(c) /\ Participating(c)
           /\ toServer[c][1].type \in
                {"Register", "AddRoleConnection", "RolesComplete", "Embody", "Disembody"}
<1>1. toServer[c] \in Seq(Messages) /\ Len(toServer[c]) \in Nat \ {0}
  BY TakesFirst DEF IInv, NetworkTypeOK, Senders
<1>2. ASSUME Registering(c)
      PROVE  toServer[c][1].type = "Register"
  BY <1>2 DEF Registering, Register
<1>3. ASSUME Supplying(c)
      PROVE  toServer[c][1].type \in {"AddRoleConnection", "RolesComplete"}
  <2>0. 1 \in 1 .. Len(toServer[c])
    BY <1>1
  <2>1. toServer[c][1] = IF 1 = Len(toServer[c]) THEN RolesComplete
                         ELSE AddRoleConnection(RoleGraph[Len(roleGraphConnections) + 1])
    BY <1>3, <2>0 DEF Supplying
  <2>. QED  BY <2>1 DEF RolesComplete, AddRoleConnection
<1>4. ASSUME Embodying(c)
      PROVE  toServer[c][1].type = "Embody"
  BY <1>4 DEF Embodying, Embody
<1>5. ASSUME Participating(c)
      PROVE  toServer[c][1].type = "Disembody"
  BY <1>5 DEF Participating, Disembody
<1>6. ~(Outside(c) \/ Waiting(c) \/ Asked(c) \/ Released(c) \/ Dismissed(c) \/ Departed(c))
  BY DEF Outside, Quiet, Waiting, Asked, Released, Dismissed, Departed
<1>7. \/ Listed(c) /\ running[c] /\ Participating(c)
      \/ ~Listed(c) /\ running[c] /\ (Registering(c) \/ Supplying(c) \/ Embodying(c))
  BY <1>6 DEF Phase
<1>. QED  BY <1>2, <1>3, <1>4, <1>5, <1>7

\* A message that arrives at a client, too.
LEMMA ClientMeets ==
    ASSUME IInv, NEW c \in Clients, Phase(c), toClient[c] # <<>>, running[c],
           pc[c] \in {"context", "running", "joining"}
    PROVE  /\ pc[c] = "context" =>
                /\ ~Listed(c)
                /\ \/ toClient[c][1].type = "RoleGraphRequest" /\ Asked(c)
                   \/ toClient[c][1].type = "AddRoleConnection" /\ (Supplying(c) \/ Released(c))
                   \/ /\ toClient[c][1].type = "RolesComplete" /\ Released(c)
                      /\ Len(toClient[c]) = 1
           /\ pc[c] # "context" =>
                \/ Listed(c) /\ Participating(c) /\ IsNews(c, toClient[c][1])
                \/ ~Listed(c) /\ Dismissed(c) /\ IsNews(c, toClient[c][1])
                \/ ~Listed(c) /\ Dismissed(c) /\ toClient[c][1] = Disembody(LocalEndpoint[c])
<1>1. toClient[c] \in Seq(Messages) /\ Len(toClient[c]) \in Nat \ {0}
  BY TakesFirst DEF IInv, NetworkTypeOK
<1>2. ASSUME Asked(c)
      PROVE  toClient[c][1].type = "RoleGraphRequest"
  BY <1>2 DEF Asked, RoleGraphRequest
<1>3. ASSUME Supplying(c)
      PROVE  toClient[c][1].type = "AddRoleConnection"
  BY <1>1, <1>3 DEF Supplying
<1>4. ASSUME Released(c)
      PROVE  \/ toClient[c][1].type = "AddRoleConnection"
             \/ toClient[c][1].type = "RolesComplete" /\ Len(toClient[c]) = 1
  <2>1. 1 \in 1 .. Len(toClient[c])
    BY <1>1
  <2>2. toClient[c][1].type = IF 1 = Len(toClient[c]) THEN "RolesComplete"
                              ELSE "AddRoleConnection"
    BY <1>4, <2>1 DEF Released
  <2>. QED  BY <2>2
<1>5. ASSUME Participating(c)
      PROVE  IsNews(c, toClient[c][1])
  BY <1>1, <1>5 DEF Participating
<1>6. ASSUME Dismissed(c)
      PROVE  IsNews(c, toClient[c][1]) \/ toClient[c][1] = Disembody(LocalEndpoint[c])
  BY <1>1, <1>6 DEF Dismissed
<1>7. ~(Outside(c) \/ Registering(c) \/ Waiting(c) \/ Embodying(c))
  BY DEF Outside, Quiet, Registering, Waiting, Embodying
<1>8. /\ Asked(c) \/ Supplying(c) \/ Released(c) => pc[c] = "context"
      /\ Participating(c) \/ Dismissed(c) => pc[c] # "context"
  BY DEF Asked, Supplying, Released, Participating, Dismissed
<1>9. \/ Listed(c) /\ Participating(c)
      \/ ~Listed(c) /\ (Asked(c) \/ Supplying(c) \/ Released(c) \/ Dismissed(c))
  BY <1>7 DEF Phase
<1>. QED  BY <1>2, <1>3, <1>4, <1>5, <1>6, <1>8, <1>9

-----------------------------------------------------------------------------
(* Clients that a step is not about *)

SameClient(d) ==
    /\ pc'[d] = pc[d] /\ running'[d] = running[d]
    /\ toServer'[d] = toServer[d]
    /\ Listed(d)' <=> Listed(d)
SameQueue(d) ==
    /\ Queued(d)' <=> Queued(d)
    /\ Queued(d) => registerQueue'[1] = registerQueue[1]

LEMMA PhaseStays ==
    ASSUME NEW d \in Clients, Phase(d), SameClient(d), toClient'[d] = toClient[d],
           SameQueue(d), UNCHANGED state,
           Queued(d) /\ registerQueue[1] = d => UNCHANGED roleGraphConnections
    PROVE  Phase(d)'
<1>1. /\ Outside(d) => Outside(d)'
      /\ Registering(d) => Registering(d)'
      /\ Waiting(d) => Waiting(d)'
      /\ Asked(d) => Asked(d)'
  BY DEF SameClient, SameQueue, Outside, Quiet, Registering, Waiting, Asked
<1>2. /\ Supplying(d) => Supplying(d)'
      /\ Released(d) => Released(d)'
      /\ Embodying(d) => Embodying(d)'
  BY DEF SameClient, SameQueue, Supplying, Released, Embodying
<1>3. /\ Participating(d) => Participating(d)'
      /\ Dismissed(d) => Dismissed(d)'
      /\ Departed(d) => Departed(d)'
  BY DEF SameClient, Participating, Dismissed, Departed, IsNews, Neighbours, Adjacent
<1>. QED  BY <1>1, <1>2, <1>3 DEF Phase, SameClient

\* A client that is not in the map has been told nothing of the others and is not
\* affected when they leave or come.
LEMMA PhaseHears ==
    ASSUME NEW d \in Clients, IInv, Phase(d), Listed(d), SameClient(d), UNCHANGED state,
           NEW ms \in Seq(Messages), toClient'[d] = toClient[d] \o ms,
           \A k \in 1 .. Len(ms) : IsNews(d, ms[k])
    PROVE  Phase(d)'
<1>1. Participating(d) /\ running[d]
  BY DEF Phase
<1>2. toClient[d] \in Seq(Messages) /\ Len(toClient[d]) \in Nat /\ Len(ms) \in Nat
  BY LenProperties DEF IInv, NetworkTypeOK
<1>3. /\ Len(toClient'[d]) = Len(toClient[d]) + Len(ms)
      /\ \A k \in 1 .. Len(toClient[d]) + Len(ms) :
            toClient'[d][k] = IF k <= Len(toClient[d]) THEN toClient[d][k]
                              ELSE ms[k - Len(toClient[d])]
  BY <1>2, ConcatProperties
<1>4. \A k \in 1 .. Len(toClient'[d]) : IsNews(d, toClient'[d][k])
  <2>. SUFFICES ASSUME NEW k \in 1 .. Len(toClient'[d])
                PROVE  IsNews(d, toClient'[d][k])
    OBVIOUS
  <2>1. CASE k <= Len(toClient[d])
    BY <1>1, <1>2, <1>3, <2>1 DEF Participating
  <2>2. CASE k > Len(toClient[d])
    <3>1. k - Len(toClient[d]) \in 1 .. Len(ms)
      BY <1>2, <1>3, <2>2
    <3>. QED  BY <1>2, <1>3, <2>2, <3>1
  <2>. QED  BY <1>2, <1>3, <2>1, <2>2
<1>5. Participating(d)'
  BY <1>1, <1>4 DEF Participating, SameClient, IsNews
<1>. QED  BY <1>1, <1>5 DEF Phase, SameClient

-----------------------------------------------------------------------------
(* Registration *)

LEMMA FirstRegisterPhase ==
    ASSUME OrderedTransport, IInv, ServerPhase, \A d \in Clients : Phase(d),
           NEW c \in Clients, NEW i, OnFirstRegister(c, i), UNCHANGED clientVars
    PROVE  ServerPhase' /\ \A d \in Clients : Phase(d)'
<1>1. /\ toServer[c] # <<>> /\ toServer[c][1].type = "Register"
      /\ toServer'[c] = Tail(toServer[c])
      /\ \A d \in Senders \ {c} : toServer'[d] = toServer[d]
  BY ServerTakes DEF OnFirstRegister, ReceiveAndReply
<1>2. ~Listed(c) /\ Registering(c) /\ running[c]
  BY <1>1, ServerMeets
<1>3. registerQueue = <<>> /\ roleGraphConnections = <<>> /\ state = "ContextUninitialised"
  BY DEF OnFirstRegister, ServerPhase
<1>4. /\ registerQueue' = <<c>> /\ state' = "ContextInizialising"
      /\ roleGraphConnections' = <<>> /\ participants' = participants /\ server' = server
  BY <1>3 DEF OnFirstRegister
<1>5. /\ toServer'[c] = <<>>
      /\ toClient'[c] = <<RoleGraphRequest>>
      /\ \A d \in Clients \ {c} : toClient'[d] = toClient[d]
  <2>1. toClient[c] = <<>> /\ toServer[c] = <<Register>> /\ toClient \in [Clients -> Seq(Messages)]
    BY <1>2 DEF Registering, IInv, NetworkTypeOK
  <2>2. toClient' = [toClient EXCEPT ![c] = @ \o <<RoleGraphRequest>>]
    BY DEF OnFirstRegister, ReceiveAndReply
  <2>3. <<>> \o <<RoleGraphRequest>> = <<RoleGraphRequest>>
    OBVIOUS
  <2>4. Tail(<<Register>>) = <<>>
    OBVIOUS
  <2>. QED  BY <1>1, <2>1, <2>2, <2>3, <2>4
<1>6. Queued(c)' /\ registerQueue'[1] = c
  BY <1>4 DEF Queued
<1>7. Phase(c)'
  <2>1. Asked(c)'
    BY <1>2, <1>4, <1>5, <1>6 DEF Asked, Registering, clientVars
  <2>. QED  BY <1>2, <1>4, <2>1 DEF Phase, Listed, clientVars
<1>8. ASSUME NEW d \in Clients, d # c
      PROVE  Phase(d)'
  <2>1. ~Queued(d) /\ ~Queued(d)'
    BY <1>3, <1>4, <1>8 DEF Queued
  <2>2. toServer'[d] = toServer[d] /\ toClient'[d] = toClient[d]
    BY <1>1, <1>5, <1>8 DEF Senders
  <2>3. ~Listed(d) /\ running[d] /\ (Outside(d) \/ Registering(d))
    BY <1>3, <2>1 DEF Phase, Waiting, Asked, Supplying, Released, Embodying, Participating,
                  Dismissed, Departed
  <2>4. Outside(d)' \/ Registering(d)'
    BY <2>1, <2>2, <2>3 DEF Outside, Quiet, Registering, clientVars
  <2>. QED  BY <1>4, <2>3, <2>4 DEF Phase, Listed, clientVars
<1>9. ServerPhase'
  BY <1>4 DEF ServerPhase
<1>. QED  BY <1>7, <1>8, <1>9

LEMMA QueuedRegisterPhase ==
    ASSUME OrderedTransport, IInv, ServerPhase, \A d \in Clients : Phase(d),
           NEW c \in Clients, NEW i, OnQueuedRegister(c, i), UNCHANGED clientVars
    PROVE  ServerPhase' /\ \A d \in Clients : Phase(d)'
<1>1. /\ toServer[c] # <<>> /\ toServer[c][1].type = "Register"
      /\ toServer'[c] = Tail(toServer[c])
      /\ \A d \in Senders \ {c} : toServer'[d] = toServer[d]
  BY ServerTakes DEF OnQueuedRegister, ReceiveAndReply
<1>2. ~Listed(c) /\ Registering(c) /\ running[c]
  BY <1>1, ServerMeets
<1>3. registerQueue # <<>> /\ state = "ContextInizialising"
  BY DEF OnQueuedRegister, ServerPhase
<1>4. /\ registerQueue' = Append(registerQueue, c)
      /\ UNCHANGED <<state, roleGraphConnections, participants, server>>
  BY DEF OnQueuedRegister
<1>5. /\ toServer'[c] = <<>>
      /\ toClient'[c] = <<>>
      /\ \A d \in Clients \ {c} : toClient'[d] = toClient[d]
  <2>1. toClient[c] = <<>> /\ toServer[c] = <<Register>> /\ toClient \in [Clients -> Seq(Messages)]
    BY <1>2 DEF Registering, IInv, NetworkTypeOK
  <2>2. toClient' = [toClient EXCEPT ![c] = @ \o <<>>]
    BY DEF OnQueuedRegister, ReceiveAndReply
  <2>3. <<>> \o <<>> = <<>>
    OBVIOUS
  <2>4. Tail(<<Register>>) = <<>>
    OBVIOUS
  <2>. QED  BY <1>1, <2>1, <2>2, <2>3, <2>4
<1>6. PICK n \in Nat \ {0} :
        /\ DOMAIN registerQueue = 1 .. n /\ DOMAIN registerQueue' = 1 .. n + 1
        /\ \A k \in 1 .. n : registerQueue'[k] = registerQueue[k]
        /\ registerQueue'[n + 1] = c
  <2>1. registerQueue \in Seq(Clients)
    BY DEF IInv, ServerTypeOK
  <2>2. Len(registerQueue) \in Nat \ {0} /\ DOMAIN registerQueue = 1 .. Len(registerQueue)
    BY <1>3, <2>1, TakesFirst
  <2>3. /\ Append(registerQueue, c) \in Seq(Clients)
        /\ Len(Append(registerQueue, c)) = Len(registerQueue) + 1
        /\ \A k \in 1 .. Len(registerQueue) : Append(registerQueue, c)[k] = registerQueue[k]
        /\ Append(registerQueue, c)[Len(registerQueue) + 1] = c
    BY <2>1, AppendProperties
  <2>4. DOMAIN registerQueue' = 1 .. Len(registerQueue) + 1
    BY <1>4, <2>3, LenProperties
  <2>. QED  BY <1>4, <2>2, <2>3, <2>4
<1>7. registerQueue'[1] = registerQueue[1]
  BY <1>6
<1>8. Phase(c)'
  <2>1. Queued(c)'
    BY <1>6 DEF Queued
  <2>2. registerQueue[1] # c
    BY <1>2, <1>6 DEF Registering, Queued
  <2>3. Waiting(c)'
    BY <1>2, <1>3, <1>4, <1>5, <1>7, <2>1, <2>2 DEF Waiting, Quiet, Registering, clientVars
  <2>. QED  BY <1>2, <1>4, <2>3 DEF Phase, Listed, clientVars
<1>9. ASSUME NEW d \in Clients, d # c
      PROVE  Phase(d)'
  <2>1. Queued(d)' <=> Queued(d)
    BY <1>6, <1>9 DEF Queued
  <2>2. SameClient(d)
    BY <1>1, <1>4, <1>9 DEF SameClient, Senders, Listed, clientVars
  <2>. QED  BY <1>4, <1>5, <1>7, <1>9, <2>1, <2>2, PhaseStays DEF SameQueue
<1>10. ServerPhase'
  <2>1. registerQueue' # <<>>
    BY <1>6
  <2>2. \A j, k \in DOMAIN registerQueue' : registerQueue'[j] = registerQueue'[k] => j = k
    <3>1. \A k \in 1 .. n : registerQueue[k] # c
      BY <1>2, <1>6 DEF Registering, Queued
    <3>2. \A j, k \in 1 .. n : registerQueue[j] = registerQueue[k] => j = k
      BY <1>6 DEF ServerPhase
    <3>. QED  BY <1>6, <3>1, <3>2
  <2>. QED  BY <1>3, <1>4, <2>1, <2>2 DEF ServerPhase
<1>. QED  BY <1>8, <1>9, <1>10

LEMMA LateRegisterPhase ==
    ASSUME OrderedTransport, IInv, ServerPhase, \A d \in Clients : Phase(d),
           NEW c \in Clients, NEW i, OnLateRegister(c, i), UNCHANGED clientVars
    PROVE  ServerPhase' /\ \A d \in Clients : Phase(d)'
<1>1. /\ toServer[c] # <<>> /\ toServer[c][1].type = "Register"
      /\ toServer'[c] = Tail(toServer[c])
      /\ \A d \in Senders \ {c} : toServer'[d] = toServer[d]
  BY ServerTakes DEF OnLateRegister, ReceiveAndReply
<1>2. ~Listed(c) /\ Registering(c) /\ running[c]
  BY <1>1, ServerMeets
<1>3. state = "ContextInitialised" /\ UNCHANGED serverVars
  BY DEF OnLateRegister
<1>4. /\ toServer'[c] = <<>>
      /\ toClient'[c] = <<RolesComplete>>
      /\ \A d \in Clients \ {c} : toClient'[d] = toClient[d]
  <2>1. toClient[c] = <<>> /\ toServer[c] = <<Register>> /\ toClient \in [Clients -> Seq(Messages)]
    BY <1>2 DEF Registering, IInv, NetworkTypeOK
  <2>2. toClient' = [toClient EXCEPT ![c] = @ \o <<RolesComplete>>]
    BY DEF OnLateRegister, ReceiveAndReply
  <2>3. <<>> \o <<RolesComplete>> = <<RolesComplete>>
    OBVIOUS
  <2>4. Tail(<<Register>>) = <<>>
    OBVIOUS
  <2>. QED  BY <1>1, <2>1, <2>2, <2>3, <2>4
<1>5. Phase(c)'
  <2>1. Len(<<RolesComplete>>) = 1 /\ <<RolesComplete>>[1].type = "RolesComplete"
    BY DEF RolesComplete
  <2>2. Released(c)'
    BY <1>2, <1>3, <1>4, <2>1 DEF Released, Registering, clientVars, serverVars
  <2>. QED  BY <1>2, <1>3, <2>2 DEF Phase, Listed, clientVars, serverVars
<1>6. ASSUME NEW d \in Clients, d # c
      PROVE  Phase(d)'
  <2>1. SameClient(d) /\ SameQueue(d)
    BY <1>1, <1>3, <1>6 DEF SameClient, SameQueue, Queued, Senders, Listed, clientVars, serverVars
  <2>. QED  BY <1>3, <1>4, <1>6, <2>1, PhaseStays DEF serverVars
<1>7. ServerPhase'
  BY <1>3 DEF ServerPhase, serverVars
<1>. QED  BY <1>5, <1>6, <1>7

-----------------------------------------------------------------------------
(* The role graph *)

LEMMA AddRoleConnectionPhase ==
    ASSUME OrderedTransport, IInv, ServerPhase, \A d \in Clients : Phase(d),
           NEW c \in Clients, NEW i, OnAddRoleConnection(c, i), UNCHANGED clientVars
    PROVE  ServerPhase' /\ \A d \in Clients : Phase(d)'
<1>1. /\ i = 1 /\ toServer[c] # <<>> /\ toServer[c][1].type = "AddRoleConnection"
      /\ toServer'[c] = Tail(toServer[c])
      /\ \A d \in Senders \ {c} : toServer'[d] = toServer[d]
      /\ toServer[c] \in Seq(Messages)
  BY ServerTakes DEF OnAddRoleConnection, ReceiveAndReply
<1>2. ~Listed(c) /\ Supplying(c) /\ running[c]
  BY <1>1, ServerMeets
<1>3. /\ roleGraphConnections' = Append(roleGraphConnections, toServer[c][1].edge)
      /\ UNCHANGED <<state, participants, registerQueue, server>>
  BY <1>1 DEF OnAddRoleConnection
<1>4. PICK n \in Nat, j \in Nat :
        /\ n = Len(toServer[c]) /\ j = Len(roleGraphConnections)
        /\ n >= 1 /\ Len(RoleGraph) \in Nat /\ j + n = Len(RoleGraph) + 1
  <2>1. roleGraphConnections \in Seq(Edges) /\ RoleGraph \in Seq(Edges)
    BY RoleAssumption DEF IInv, ServerTypeOK
  <2>2. Len(toServer[c]) \in Nat \ {0} /\ Len(roleGraphConnections) \in Nat /\ Len(RoleGraph) \in Nat
    BY <1>1, <2>1, TakesFirst, LenProperties
  <2>. QED  BY <1>2, <2>2, SMTT(20) DEF Supplying
<1>5. /\ \A k \in 1 .. j : roleGraphConnections[k] = RoleGraph[k]
      /\ \A k \in 1 .. n : toServer[c][k] = IF k = n THEN RolesComplete
                                            ELSE AddRoleConnection(RoleGraph[j + k])
  BY <1>2, <1>4 DEF Supplying
<1>6. n # 1 /\ toServer[c][1] = AddRoleConnection(RoleGraph[j + 1])
  <2>1. 1 \in 1 .. n
    BY <1>4
  <2>2. toServer[c][1] = IF 1 = n THEN RolesComplete ELSE AddRoleConnection(RoleGraph[j + 1])
    BY <1>5, <2>1
  <2>. QED  BY <1>1, <2>2 DEF RolesComplete
<1>7. toServer[c][1].edge = RoleGraph[j + 1] /\ RoleGraph[j + 1] \in Edges
  <2>1. j + 1 \in 1 .. Len(RoleGraph)
    <3>1. n # 1
      BY <1>6
    <3>2. PICK r \in Nat : r = Len(RoleGraph)
      BY <1>4
    <3>3. j + n = r + 1
      BY <1>4, <3>2
    <3>4. n >= 1
      BY <1>4
    <3>5. j + 1 \in 1 .. r
      BY <3>1, <3>3, <3>4
    <3>. QED  BY <3>2, <3>5
  <2>. QED  BY <1>6, <2>1, RoleAssumption, ElementOfSeq DEF AddRoleConnection
<1>8. /\ Len(roleGraphConnections') = j + 1
      /\ \A k \in 1 .. j + 1 : roleGraphConnections'[k] = RoleGraph[k]
  <2>1. roleGraphConnections \in Seq(Edges)
    BY DEF IInv, ServerTypeOK
  <2>2. /\ Len(roleGraphConnections') = j + 1
        /\ \A k \in 1 .. j : roleGraphConnections'[k] = roleGraphConnections[k]
        /\ roleGraphConnections'[j + 1] = RoleGraph[j + 1]
    BY <1>3, <1>4, <1>7, <2>1, AppendProperties
  <2>3. \A k \in 1 .. j + 1 : k \in 1 .. j \/ k = j + 1
    BY <1>4
  <2>. QED  BY <1>5, <2>2, <2>3
<1>9. /\ Len(toServer'[c]) = n - 1 /\ toServer'[c] # <<>>
      /\ \A k \in 1 .. n - 1 : toServer'[c][k] = IF k = n - 1 THEN RolesComplete
                                    ELSE AddRoleConnection(RoleGraph[j + 1 + k])
  <2>1. /\ Len(toServer'[c]) = n - 1
        /\ \A k \in 1 .. n - 1 : toServer'[c][k] = toServer[c][k + 1]
    BY <1>1, <1>4, TakesFirst
  <2>2. ASSUME NEW k \in 1 .. n - 1
        PROVE  toServer'[c][k] = IF k = n - 1 THEN RolesComplete
                                 ELSE AddRoleConnection(RoleGraph[j + 1 + k])
    <3>1. k + 1 \in 1 .. n /\ (k + 1 = n <=> k = n - 1) /\ j + (k + 1) = j + 1 + k
      BY <1>4
    <3>2. toServer[c][k + 1] = IF k + 1 = n THEN RolesComplete
                               ELSE AddRoleConnection(RoleGraph[j + (k + 1)])
      BY <1>5, <3>1
    <3>. QED  BY <2>1, <3>1, <3>2
  <2>3. toServer'[c] # <<>>
    <3>1. Len(toServer'[c]) # 0
      BY <1>4, <1>6, <2>1
    <3>. QED  BY <3>1
  <2>. QED  BY <2>1, <2>2, <2>3
<1>10. /\ \A d \in Clients \ {c} : toClient'[d] = toClient[d]
       /\ \A k \in 1 .. Len(toClient'[c]) : toClient'[c][k].type = "AddRoleConnection"
  <2>1. toClient \in [Clients -> Seq(Messages)] /\ toServer[c][1] \in Messages
    BY <1>1, TakesFirst DEF IInv, NetworkTypeOK
  <2>2. toClient' = [toClient EXCEPT ![c] = toClient[c] \o <<toServer[c][1]>>]
    BY <1>1 DEF OnAddRoleConnection, ReceiveAndReply
  <2>3. PICK l \in Nat : l = Len(toClient[c])
    BY <2>1, LenProperties
  <2>4. /\ Len(toClient'[c]) = l + 1
        /\ \A k \in 1 .. l : toClient'[c][k] = toClient[c][k]
        /\ toClient'[c][l + 1] = toServer[c][1]
    <3>1. toClient[c] \o <<toServer[c][1]>> = Append(toClient[c], toServer[c][1])
      BY <2>1
    <3>. QED  BY <2>1, <2>2, <2>3, <3>1, AppendProperties
  <2>5. \A k \in 1 .. l + 1 : k \in 1 .. l \/ k = l + 1
    BY <2>3
  <2>6. \A k \in 1 .. l : toClient[c][k].type = "AddRoleConnection"
    BY <1>2, <2>3 DEF Supplying
  <2>. QED  BY <1>1, <2>1, <2>2, <2>4, <2>5, <2>6
<1>11. Phase(c)'
  <2>1. Len(roleGraphConnections') + Len(toServer'[c]) = Len(RoleGraph) + 1
    <3>1. Len(roleGraphConnections') = j + 1 /\ Len(toServer'[c]) = n - 1
      BY <1>8, <1>9
    <3>2. (j + 1) + (n - 1) = j + n
      OBVIOUS
    <3>. QED  BY <1>4, <3>1, <3>2
  <2>2. \A k \in 1 .. Len(toServer'[c]) :
            toServer'[c][k] = IF k = Len(toServer'[c]) THEN RolesComplete
                      ELSE AddRoleConnection(RoleGraph[Len(roleGraphConnections') + k])
    BY <1>8, <1>9
  <2>3. Supplying(c)'
    BY <1>2, <1>3, <1>8, <1>9, <1>10, <2>1, <2>2 DEF Supplying, Queued, clientVars
  <2>. QED  BY <1>2, <1>3, <2>3 DEF Phase, Listed, clientVars
<1>12. registerQueue[1] = c /\ state = "ContextInizialising"
  BY <1>2 DEF Supplying
<1>13. ASSUME NEW d \in Clients, d # c
       PROVE  Phase(d)'
  <2>1. SameClient(d) /\ SameQueue(d)
    BY <1>1, <1>3, <1>13 DEF SameClient, SameQueue, Queued, Senders, Listed, clientVars
  <2>. QED  BY <1>3, <1>10, <1>12, <1>13, <2>1, PhaseStays
<1>14. ServerPhase'
  BY <1>3, <1>12 DEF ServerPhase
<1>. QED  BY <1>11, <1>13, <1>14

\* A client waits in the queue once.
LEMMA OneRelease ==
    ASSUME IInv, ServerPhase, NEW c
    PROVE  Releases(c) = IF Queued(c) THEN <<RolesComplete>> ELSE <<>>
<1>. DEFINE queued == {k \in DOMAIN registerQueue : registerQueue[k] = c}
<1>1. CASE Queued(c)
  <2>1. PICK k \in DOMAIN registerQueue : registerQueue[k] = c
    BY <1>1 DEF Queued
  <2>2. queued = {k}
    BY <2>1 DEF ServerPhase
  <2>3. Cardinality(queued) = 1
    BY <2>2, FS_Singleton
  <2>4. Releases(c) = [j \in 1 .. 1 |-> RolesComplete]
    BY <2>3 DEF Releases
  <2>. QED  BY <1>1, <2>4
<1>2. CASE ~Queued(c)
  <2>1. queued = {}
    BY <1>2 DEF Queued
  <2>2. Cardinality(queued) = 0
    BY <2>1, FS_EmptySet
  <2>3. Releases(c) = [j \in 1 .. 0 |-> RolesComplete]
    BY <2>2 DEF Releases
  <2>. QED  BY <1>2, <2>3
<1>. QED  BY <1>1, <1>2

LEMMA RolesCompletePhase ==
    ASSUME OrderedTransport, IInv, ServerPhase, \A d \in Clients : Phase(d),
           NEW c \in Clients, NEW i, OnRolesComplete(c, i), UNCHANGED clientVars
    PROVE  ServerPhase' /\ \A d \in Clients : Phase(d)'
<1>1. /\ i = 1 /\ toServer[c] # <<>> /\ toServer[c][1].type = "RolesComplete"
      /\ toServer'[c] = Tail(toServer[c])
      /\ \A d \in Senders \ {c} : toServer'[d] = toServer[d]
      /\ toServer[c] \in Seq(Messages)
  BY ServerTakes DEF OnRolesComplete
<1>2. ~Listed(c) /\ Supplying(c) /\ running[c]
  BY <1>1, ServerMeets
<1>3. /\ state' = "ContextInitialised" /\ state = "ContextInizialising"
      /\ UNCHANGED <<roleGraphConnections, participants, registerQueue, server>>
  BY <1>2 DEF OnRolesComplete, Supplying
<1>4. PICK n \in Nat, j \in Nat :
        /\ n = Len(toServer[c]) /\ j = Len(roleGraphConnections)
        /\ n >= 1 /\ Len(RoleGraph) \in Nat /\ j + n = Len(RoleGraph) + 1
  <2>1. roleGraphConnections \in Seq(Edges) /\ RoleGraph \in Seq(Edges)
    BY RoleAssumption DEF IInv, ServerTypeOK
  <2>2. Len(toServer[c]) \in Nat \ {0} /\ Len(roleGraphConnections) \in Nat /\ Len(RoleGraph) \in Nat
    BY <1>1, <2>1, TakesFirst, LenProperties
  <2>. QED  BY <1>2, <2>2, SMTT(20) DEF Supplying
<1>5. n = 1
  <2>1. 1 \in 1 .. n
    BY <1>4
  <2>2. toServer[c][1] = IF 1 = n THEN RolesComplete ELSE AddRoleConnection(RoleGraph[j + 1])
    BY <1>2, <1>4, <2>1 DEF Supplying
  <2>. QED  BY <1>1, <2>2 DEF AddRoleConnection
<1>6. roleGraphConnections = RoleGraph
  <2>1. roleGraphConnections \in Seq(Edges) /\ RoleGraph \in Seq(Edges)
    BY RoleAssumption DEF IInv, ServerTypeOK
  <2>2. Len(roleGraphConnections) = Len(RoleGraph)
    BY <1>4, <1>5
  <2>. QED  BY <1>2, <2>1, <2>2, SeqEqual DEF Supplying
<1>7. toServer'[c] = <<>>
  BY <1>1, <1>4, <1>5, TakesFirst
<1>8. \A d \in Clients : toClient'[d] =
        IF Queued(d) THEN toClient[d] \o <<RolesComplete>> ELSE toClient[d]
  <2>1. toClient' = [d \in Clients |-> toClient[d] \o Releases(d)]
    BY DEF OnRolesComplete
  <2>2. \A d \in Clients : toClient[d] \o <<>> = toClient[d]
    BY ConcatEmptySeq DEF IInv, NetworkTypeOK
  <2>. QED  BY <2>1, <2>2, OneRelease
<1>9. Phase(c)'
  <2>1. toClient'[c] = toClient[c] \o <<RolesComplete>> /\ toClient[c] \in Seq(Messages)
    BY <1>2, <1>8 DEF Supplying, IInv, NetworkTypeOK
  <2>2. PICK l \in Nat : l = Len(toClient[c])
    BY <2>1, LenProperties
  <2>3. /\ Len(toClient'[c]) = l + 1
        /\ \A k \in 1 .. l : toClient'[c][k] = toClient[c][k]
        /\ toClient'[c][l + 1] = RolesComplete
    <3>1. toClient[c] \o <<RolesComplete>> = Append(toClient[c], RolesComplete)
      BY <2>1
    <3>2. RolesComplete \in Messages
      BY DEF RolesComplete, Messages
    <3>. QED  BY <2>1, <2>2, <3>1, <3>2, AppendProperties
  <2>4. \A k \in 1 .. l : toClient[c][k].type = "AddRoleConnection"
    BY <1>2, <2>2 DEF Supplying
  <2>5. \A k \in 1 .. l + 1 :
            toClient'[c][k].type = IF k = l + 1 THEN "RolesComplete" ELSE "AddRoleConnection"
    <3>1. \A k \in 1 .. l + 1 : k \in 1 .. l \/ k = l + 1
      BY <2>2
    <3>2. RolesComplete.type = "RolesComplete"
      BY DEF RolesComplete
    <3>. QED  BY <2>2, <2>3, <2>4, <3>1, <3>2
  <2>6. toClient'[c] # <<>>
    <3>1. Len(toClient'[c]) # 0
      BY <2>2, <2>3
    <3>. QED  BY <3>1
  <2>7. Released(c)'
    BY <1>2, <1>3, <1>7, <2>3, <2>5, <2>6 DEF Released, Supplying, clientVars
  <2>. QED  BY <1>2, <1>3, <2>7 DEF Phase, Listed, clientVars
<1>10. ASSUME NEW d \in Clients, d # c
       PROVE  Phase(d)'
  <2>1. toServer'[d] = toServer[d]
    BY <1>1, <1>10 DEF Senders
  <2>2. registerQueue[1] = c
    BY <1>2 DEF Supplying
  <2>3. ~Listed(d) /\ running[d] /\ (Outside(d) \/ Registering(d) \/ Waiting(d))
    BY <1>3, <1>10, <2>2 DEF Phase, Asked, Supplying, Released, Embodying, Participating,
                            Dismissed, Departed
  <2>4. CASE Outside(d) \/ Registering(d)
    <3>1. toClient'[d] = toClient[d]
      BY <1>8, <2>4 DEF Outside, Registering
    <3>2. Outside(d)' \/ Registering(d)'
      BY <1>3, <2>1, <2>4, <3>1 DEF Outside, Quiet, Registering, Queued, clientVars
    <3>. QED  BY <1>3, <2>3, <3>2 DEF Phase, Listed, clientVars
  <2>5. CASE Waiting(d)
    <3>1. toClient'[d] = <<RolesComplete>>
      <4>1. toClient'[d] = <<>> \o <<RolesComplete>>
        BY <1>8, <2>5 DEF Waiting, Quiet
      <4>. QED  BY <4>1
    <3>2. Len(<<RolesComplete>>) = 1 /\ <<RolesComplete>>[1].type = "RolesComplete"
      BY DEF RolesComplete
    <3>3. Released(d)'
      BY <1>3, <2>1, <2>5, <3>1, <3>2 DEF Released, Waiting, Quiet, clientVars
    <3>. QED  BY <1>3, <2>3, <3>3 DEF Phase, Listed, clientVars
  <2>. QED  BY <2>3, <2>4, <2>5
<1>11. ServerPhase'
  BY <1>3, <1>6 DEF ServerPhase
<1>. QED  BY <1>9, <1>10, <1>11

-----------------------------------------------------------------------------
(* Participants *)

\* Whom executeOnNeighbor visits is a peer and is in the map under its own endpoint.
LEMMA VisitsListed ==
    ASSUME IInv, ServerPhase, NEW c \in Clients, NEW visit \in Visits(RoleOf[c])
    PROVE  LET d == participants[visit[3]].managerEndpoint
           IN  /\ d \in Peers(c) /\ visit[3] = LocalEndpoint[d] /\ Listed(d)
               /\ participants[visit[3]].dataEndpoint = DataEndpoint(d)
<1>1. visit[3] \in DOMAIN participants
  BY DEF Visits
<1>2. GraphInv /\ ParticipantsInv
  BY IInvParts
<1>. QED  BY <1>1, <1>2, VisitedPeer DEF ServerPhase, Listed

\* A client that is not in the map is sent no copy.
LEMMA CopiesFacts ==
    ASSUME IInv, ServerPhase, NEW c \in Clients, NEW d \in Clients, NEW m
    PROVE  /\ CopiesFor(d, RoleOf[c], m) \in Seq({m})
           /\ ~Listed(d) => CopiesFor(d, RoleOf[c], m) = <<>>
<1>1. ServerTypeOK
  BY DEF IInv
<1>2. CopiesFor(d, RoleOf[c], m) \in Seq({m})
  BY <1>1, CopiesForSeq
<1>3. ASSUME ~Listed(d)
      PROVE  CopiesFor(d, RoleOf[c], m) = <<>>
  <2>1. ~ \E visit \in Visits(RoleOf[c]) : participants[visit[3]].managerEndpoint = d
    BY <1>3, VisitsListed
  <2>2. CopiesFor(d, RoleOf[c], m) \in Seq({})
    BY <1>1, <2>1, CopiesForSeq
  <2>3. Len(CopiesFor(d, RoleOf[c], m)) = 0
    <3>1. \A k \in 1 .. Len(CopiesFor(d, RoleOf[c], m)) : FALSE
      BY <2>2, ElementOfSeq
    <3>2. Len(CopiesFor(d, RoleOf[c], m)) \in Nat
      BY <2>2, LenProperties
    <3>. QED  BY <3>1, <3>2
  <2>. QED  BY <2>2, <2>3, EmptySeq
<1>. QED  BY <1>2, <1>3

\* The elements of a sequence of copies.
LEMMA AllNews ==
    ASSUME NEW d \in Clients, NEW m \in Messages, NEW ms \in Seq({m}), IsNews(d, m)
    PROVE  ms \in Seq(Messages) /\ \A k \in 1 .. Len(ms) : IsNews(d, ms[k])
<1>1. \A k \in 1 .. Len(ms) : ms[k] = m
  BY ElementOfSeq
<1>2. ms \in Seq(Messages)
  BY SeqMonotonic
<1>. QED  BY <1>1, <1>2

LEMMA EmbodyFacts ==
    ASSUME OrderedTransport, IInv, ServerPhase, \A d \in Clients : Phase(d),
           NEW c \in Clients, NEW i, OnEmbody(c, i)
    PROVE  /\ ~Listed(c) /\ running[c] /\ Embodying(c)
           /\ toServer'[c] = Tail(toServer[c])
           /\ \A d \in Senders \ {c} : toServer'[d] = toServer[d]
           /\ UNCHANGED <<state, roleGraphConnections, registerQueue, server>>
           /\ participants' = SetParticipant(LocalEndpoint[c],
                    [dataEndpoint |-> DataEndpoint(c), managerEndpoint |-> c,
                     roleId |-> RoleOf[c]])
           /\ \E calls \in CallOrders(RoleOf[c]) : toClient'[c] = Announcements(calls)
           /\ \A d \in Clients \ {c} : toClient'[d] =
                toClient[d] \o CopiesFor(d, RoleOf[c], Embody(DataEndpoint(c), RoleOf[c]))
<1>. DEFINE embody == Embody(DataEndpoint(c), RoleOf[c])
<1>0. GraphInv /\ ParticipantsInv /\ ToServerInv
  BY IInvParts
<1>1. /\ i = 1 /\ toServer[c] # <<>> /\ toServer[c][1].type = "Embody"
      /\ toServer'[c] = Tail(toServer[c])
      /\ \A d \in Senders \ {c} : toServer'[d] = toServer[d]
  BY ServerTakes DEF OnEmbody
<1>2. ~Listed(c) /\ running[c] /\ Embodying(c)
  BY <1>1, ServerMeets
<1>3. toServer[c][i] = Embody(LocalEndpoint[c], RoleOf[c])
  BY <1>0, ServerReceived, ClientMessage DEF OnEmbody
<1>4. /\ toServer[c][i].endpoint = LocalEndpoint[c]
      /\ toServer[c][i].roleId = RoleOf[c]
      /\ normalize(toServer[c][i].endpoint, c) = DataEndpoint(c)
  BY <1>3, DataEndpointType DEF Embody
<1>5. PICK calls \in CallOrders(RoleOf[c]) :
        toClient' = [d \in Clients |->
            toClient[d] \o (IF d = c THEN Announcements(calls) ELSE <<>>)
                        \o CopiesFor(d, RoleOf[c], embody)]
  BY <1>4, Zenon DEF OnEmbody
<1>6. participants' = SetParticipant(LocalEndpoint[c],
        [dataEndpoint |-> DataEndpoint(c), managerEndpoint |-> c, roleId |-> RoleOf[c]])
  BY <1>4 DEF OnEmbody
<1>7. \A d \in Clients : toClient[d] \in Seq(Messages) /\ toClient[d] \o <<>> = toClient[d]
  BY ConcatEmptySeq DEF IInv, NetworkTypeOK
<1>8. toClient'[c] = Announcements(calls)
  <2>1. toClient[c] = <<>> /\ CopiesFor(c, RoleOf[c], embody) = <<>>
    BY <1>2, CopiesFacts DEF Embodying
  <2>2. Announcements(calls) \in Seq(MailToClient(c))
    BY <1>0, AnnouncementsSeq DEF IInv
  <2>3. toClient'[c] = (<<>> \o Announcements(calls)) \o <<>>
    BY <1>5, <2>1
  <2>. QED  BY <2>2, <2>3, ConcatEmptySeq
<1>9. \A d \in Clients \ {c} : toClient'[d] = toClient[d] \o CopiesFor(d, RoleOf[c], embody)
  BY <1>5, <1>7
<1>10. UNCHANGED <<state, roleGraphConnections, registerQueue, server>>
  BY DEF OnEmbody
<1>. QED  BY <1>1, <1>2, <1>6, <1>8, <1>9, <1>10

LEMMA EmbodyPhase ==
    ASSUME OrderedTransport, DistinctEndpoints, IInv, ServerPhase, \A d \in Clients : Phase(d),
           NEW c \in Clients, NEW i, OnEmbody(c, i), UNCHANGED clientVars
    PROVE  ServerPhase' /\ \A d \in Clients : Phase(d)'
<1>. DEFINE participant == [dataEndpoint |-> DataEndpoint(c), managerEndpoint |-> c,
                            roleId |-> RoleOf[c]]
            embody == Embody(DataEndpoint(c), RoleOf[c])
<1>1. /\ ~Listed(c) /\ running[c] /\ Embodying(c)
      /\ toServer'[c] = Tail(toServer[c])
      /\ \A d \in Senders \ {c} : toServer'[d] = toServer[d]
      /\ UNCHANGED <<state, roleGraphConnections, registerQueue, server>>
      /\ participants' = SetParticipant(LocalEndpoint[c], participant)
      /\ \A d \in Clients \ {c} : toClient'[d] = toClient[d] \o CopiesFor(d, RoleOf[c], embody)
  BY EmbodyFacts
<1>2. PICK calls \in CallOrders(RoleOf[c]) : toClient'[c] = Announcements(calls)
  BY EmbodyFacts
<1>3. /\ DOMAIN participants' = DOMAIN participants \cup {LocalEndpoint[c]}
      /\ \A key \in DOMAIN participants' :
            participants'[key] = IF key = LocalEndpoint[c] THEN participant ELSE participants[key]
  BY <1>1 DEF SetParticipant
<1>4. Listed(c)' /\ \A d \in Clients \ {c} : Listed(d)' <=> Listed(d)
  BY <1>3 DEF Listed, DistinctEndpoints
<1>5. Phase(c)'
  <2>1. \/ toServer'[c] = <<>> /\ pc[c] \in {"running", "crashed"}
        \/ toServer'[c] = <<Disembody(LocalEndpoint[c])>> /\ pc[c] \in {"joining", "crashed"}
    <3>1. \A m : Tail(<<m>>) = <<>>
      OBVIOUS
    <3>2. \A m, n : Tail(<<m, n>>) = <<n>>
      OBVIOUS
    <3>. QED  BY <1>1, <3>1, <3>2 DEF Embodying
  <2>2. \A k \in 1 .. Len(toClient'[c]) : IsNews(c, toClient'[c][k])
    <3>1. calls \in Seq(Visits(RoleOf[c]))
      BY CallOrdersSeq DEF IInv
    <3>2. DOMAIN calls = 1 .. Len(calls) /\ Len(calls) \in Nat
      BY <3>1, LenProperties
    <3>3. /\ DOMAIN toClient'[c] = 1 .. Len(calls)
          /\ \A k \in 1 .. Len(calls) : toClient'[c][k].type = "Announce"
      BY <1>2, <3>2 DEF Announcements, Announce
    <3>4. Len(toClient'[c]) = Len(calls)
      BY <1>2, <3>2 DEF Announcements
    <3>. QED  BY <3>3, <3>4 DEF IsNews
  <2>3. Participating(c)'
    BY <1>1, <2>1, <2>2 DEF Participating, Embodying, clientVars, IsNews
  <2>. QED  BY <1>1, <1>4, <2>3 DEF Phase, clientVars
<1>6. ASSUME NEW d \in Clients, d # c
      PROVE  Phase(d)'
  <2>1. SameClient(d) /\ SameQueue(d)
    BY <1>1, <1>4, <1>6 DEF SameClient, SameQueue, Queued, Senders, clientVars
  <2>2. CopiesFor(d, RoleOf[c], embody) \in Seq({embody})
        /\ (~Listed(d) => CopiesFor(d, RoleOf[c], embody) = <<>>)
    BY CopiesFacts
  <2>3. CASE Listed(d)
    <3>1. embody \in Messages /\ IsNews(d, embody)
      BY DataEndpointType, RoleAssumption DEF Embody, Messages, IsNews
    <3>2. PICK ms : ms = CopiesFor(d, RoleOf[c], embody)
      OBVIOUS
    <3>3. ms \in Seq(Messages) /\ \A k \in 1 .. Len(ms) : IsNews(d, ms[k])
      BY <2>2, <3>1, <3>2, AllNews
    <3>4. toClient'[d] = toClient[d] \o ms
      BY <1>1, <1>6, <3>2
    <3>. QED  BY <1>1, <2>1, <2>3, <3>3, <3>4, PhaseHears
  <2>4. CASE ~Listed(d)
    <3>1. toClient'[d] = toClient[d]
      BY <1>1, <1>6, <2>2, <2>4, ConcatEmptySeq DEF IInv, NetworkTypeOK
    <3>. QED  BY <1>1, <2>1, <3>1, PhaseStays
  <2>. QED  BY <2>3, <2>4
<1>7. ServerPhase'
  <2>1. \A key \in DOMAIN participants' :
            key = LocalEndpoint[participants'[key].managerEndpoint]
    BY <1>3 DEF ServerPhase
  <2>. QED  BY <1>1, <2>1 DEF ServerPhase
<1>. QED  BY <1>5, <1>6, <1>7

\* The participant under the endpoint of client c is client c.
LEMMA ListedParticipant ==
    ASSUME DistinctEndpoints, IInv, ServerPhase, NEW c \in Clients, Listed(c)
    PROVE  /\ participants[LocalEndpoint[c]].managerEndpoint = c
           /\ participants[LocalEndpoint[c]].dataEndpoint = DataEndpoint(c)
           /\ participants[LocalEndpoint[c]].roleId = RoleOf[c]
<1>1. ParticipantInv(LocalEndpoint[c])
  BY IInvParts DEF ParticipantsInv, Listed
<1>2. PICK d \in Clients : participants[LocalEndpoint[c]].managerEndpoint = d
  BY <1>1 DEF ParticipantInv, Participants
<1>3. LocalEndpoint[c] = LocalEndpoint[d]
  BY <1>2 DEF ServerPhase, Listed
<1>4. d = c
  BY <1>3 DEF DistinctEndpoints
<1>. QED  BY <1>1, <1>2, <1>4 DEF ParticipantInv

\* What the server knows when client c disembodies.
LEMMA DisembodyMeets ==
    ASSUME OrderedTransport, IInv, ServerPhase, \A d \in Clients : Phase(d),
           NEW c \in Clients, NEW i, ServerReceives(c, i, "Disembody"), ReceiveAtServer(c, i)
    PROVE  /\ Listed(c) /\ running[c] /\ Participating(c)
           /\ toServer[c][i] = Disembody(LocalEndpoint[c])
           /\ pc[c] \in {"joining", "crashed"}
           /\ toServer'[c] = <<>>
           /\ \A d \in Senders \ {c} : toServer'[d] = toServer[d]
<1>1. /\ i = 1 /\ toServer[c] # <<>> /\ toServer[c][1].type = "Disembody"
      /\ toServer'[c] = Tail(toServer[c])
      /\ \A d \in Senders \ {c} : toServer'[d] = toServer[d]
  BY ServerTakes
<1>2. Listed(c) /\ Participating(c) /\ running[c]
  BY <1>1, ServerMeets
<1>3. /\ toServer[c] = <<Disembody(LocalEndpoint[c])>>
      /\ pc[c] \in {"joining", "crashed"}
  BY <1>1, <1>2 DEF Participating
<1>4. toServer'[c] = <<>>
  <2>1. \A m : Tail(<<m>>) = <<>>
    OBVIOUS
  <2>. QED  BY <1>1, <1>3, <2>1
<1>5. toServer[c][i] = Disembody(LocalEndpoint[c])
  BY <1>1, <1>3
<1>. QED  BY <1>1, <1>2, <1>3, <1>4, <1>5

LEMMA DisembodyFacts ==
    ASSUME OrderedTransport, DistinctEndpoints, IInv, ServerPhase, \A d \in Clients : Phase(d),
           NEW c \in Clients, NEW i, OnDisembody(c, i)
    PROVE  /\ UNCHANGED <<state, roleGraphConnections, registerQueue, server>>
           /\ participants' = EraseParticipant(LocalEndpoint[c])
           /\ toClient'[c] = (toClient[c] \o <<Disembody(LocalEndpoint[c])>>)
                                \o CopiesFor(c, RoleOf[c], Disembody(DataEndpoint(c)))
           /\ \A d \in Clients \ {c} : toClient'[d] =
                toClient[d] \o CopiesFor(d, RoleOf[c], Disembody(DataEndpoint(c)))
<1>1. Listed(c) /\ toServer[c][i] = Disembody(LocalEndpoint[c])
  BY DisembodyMeets DEF OnDisembody
<1>2. toServer[c][i].endpoint = LocalEndpoint[c]
  BY <1>1 DEF Disembody
<1>3. /\ participants[LocalEndpoint[c]].dataEndpoint = DataEndpoint(c)
      /\ participants[LocalEndpoint[c]].roleId = RoleOf[c]
  BY <1>1, ListedParticipant
<1>4. /\ toClient' = [d \in Clients |->
            toClient[d] \o (IF d = c THEN <<Disembody(LocalEndpoint[c])>> ELSE <<>>)
                        \o CopiesFor(d, RoleOf[c], Disembody(DataEndpoint(c)))]
      /\ participants' = EraseParticipant(LocalEndpoint[c])
  BY <1>1, <1>2, <1>3 DEF OnDisembody
<1>5. \A d \in Clients : toClient[d] \o <<>> = toClient[d]
  BY ConcatEmptySeq DEF IInv, NetworkTypeOK
<1>6. \A d \in Clients \ {c} : toClient'[d] =
            toClient[d] \o CopiesFor(d, RoleOf[c], Disembody(DataEndpoint(c)))
  BY <1>4, <1>5
<1>7. toClient'[c] = (toClient[c] \o <<Disembody(LocalEndpoint[c])>>)
                        \o CopiesFor(c, RoleOf[c], Disembody(DataEndpoint(c)))
  BY <1>4
<1>8. UNCHANGED <<state, roleGraphConnections, registerQueue, server>>
  BY DEF OnDisembody
<1>. QED  BY <1>4, <1>6, <1>7, <1>8

\* The data endpoint of another client is not what client c is bound to.
LEMMA OthersEndpoint ==
    ASSUME DistinctEndpoints, NEW c \in Clients, NEW d \in Clients, c # d
    PROVE  DataEndpoint(d) # LocalEndpoint[c]
<1>1. /\ LocalEndpoint[c] \in (Hosts \cup {AnyHost}) \X Ports
      /\ LocalEndpoint[d] \in (Hosts \cup {AnyHost}) \X Ports
      /\ HostOf[c] \in Hosts /\ HostOf[d] \in Hosts
  BY EndpointAssumption, HostAssumption DEF Endpoints
<1>2. DataEndpoint(d)[1] \in Hosts
  BY <1>1 DEF DataEndpoint
<1>3. CASE LocalEndpoint[c][1] = AnyHost
  BY <1>2, <1>3 DEF DistinctEndpoints
<1>4. CASE LocalEndpoint[c][1] # AnyHost
  <2>1. DataEndpoint(c) = LocalEndpoint[c]
    BY <1>1, <1>4 DEF DataEndpoint
  <2>. QED  BY <2>1 DEF DistinctEndpoints
<1>. QED  BY <1>3, <1>4

LEMMA DisembodyPhase ==
    ASSUME OrderedTransport, DistinctEndpoints, IInv, ServerPhase, \A d \in Clients : Phase(d),
           NEW c \in Clients, NEW i, OnDisembody(c, i), UNCHANGED clientVars
    PROVE  ServerPhase' /\ \A d \in Clients : Phase(d)'
<1>. DEFINE disembody == Disembody(DataEndpoint(c))
<1>1. /\ UNCHANGED <<state, roleGraphConnections, registerQueue, server>>
      /\ participants' = EraseParticipant(LocalEndpoint[c])
      /\ \A d \in Clients \ {c} : toClient'[d] = toClient[d] \o CopiesFor(d, RoleOf[c], disembody)
  BY DisembodyFacts
<1>2. /\ Listed(c) /\ running[c] /\ Participating(c)
      /\ pc[c] \in {"joining", "crashed"}
      /\ toServer'[c] = <<>>
      /\ \A d \in Senders \ {c} : toServer'[d] = toServer[d]
  BY DisembodyMeets DEF OnDisembody
<1>3. /\ DOMAIN participants' = DOMAIN participants \ {LocalEndpoint[c]}
      /\ \A key \in DOMAIN participants' : participants'[key] = participants[key]
  BY <1>1 DEF EraseParticipant
<1>4. ~Listed(c)' /\ \A d \in Clients \ {c} : Listed(d)' <=> Listed(d)
  BY <1>3 DEF Listed, DistinctEndpoints
<1>5. disembody \in Messages
  BY DataEndpointType DEF Disembody, Messages
<1>6. Phase(c)'
  <2>1. PICK ms : ms = CopiesFor(c, RoleOf[c], disembody)
    OBVIOUS
  <2>2. ms \in Seq(Messages)
    <3>1. ms \in Seq({disembody})
      BY <2>1, CopiesFacts
    <3>. QED  BY <1>5, <3>1, SeqMonotonic
  <2>3. PICK l \in Nat, n \in Nat : l = Len(toClient[c]) /\ n = Len(ms)
    BY <2>2, LenProperties DEF IInv, NetworkTypeOK
  <2>4. /\ Len(toClient'[c]) = l + 1 + n
        /\ \A k \in 1 .. l : toClient'[c][k] = toClient[c][k]
        /\ toClient'[c][l + 1] = Disembody(LocalEndpoint[c])
    <3>1. toClient[c] \in Seq(Messages) /\ Disembody(LocalEndpoint[c]) \in Messages
      BY EndpointAssumption DEF IInv, NetworkTypeOK, Disembody, Messages
    <3>2. PICK a : a = toClient[c] \o <<Disembody(LocalEndpoint[c])>>
      OBVIOUS
    <3>3. a = Append(toClient[c], Disembody(LocalEndpoint[c]))
      BY <3>1, <3>2
    <3>4. /\ a \in Seq(Messages) /\ Len(a) = l + 1
          /\ \A k \in 1 .. l : a[k] = toClient[c][k]
          /\ a[l + 1] = Disembody(LocalEndpoint[c])
      BY <2>3, <3>1, <3>3, AppendProperties
    <3>5. toClient'[c] = a \o ms
      BY <2>1, <3>2, DisembodyFacts
    <3>6. /\ Len(a \o ms) = Len(a) + Len(ms)
          /\ \A k \in 1 .. Len(a) + Len(ms) :
                (a \o ms)[k] = IF k <= Len(a) THEN a[k] ELSE ms[k - Len(a)]
      BY <2>2, <3>4, ConcatProperties
    <3>7. /\ Len(toClient'[c]) = l + 1 + n
          /\ \A k \in 1 .. l + 1 + n :
                toClient'[c][k] = IF k <= l + 1 THEN a[k] ELSE ms[k - (l + 1)]
      BY <2>3, <3>4, <3>5, <3>6
    <3>8. \A k \in 1 .. l + 1 : k \in 1 .. l + 1 + n /\ k <= l + 1
      BY <2>3
    <3>9. \A k \in 1 .. l + 1 : toClient'[c][k] = a[k]
      BY <3>7, <3>8
    <3>10. l + 1 \in 1 .. l + 1 /\ \A k \in 1 .. l : k \in 1 .. l + 1
      BY <2>3
    <3>. QED  BY <3>4, <3>7, <3>9, <3>10
  <2>5. ms # <<>> => Neighbours(c, c)
    <3>1. ASSUME ~Neighbours(c, c)
          PROVE  ms = <<>>
      <4>1. ~ \E visit \in Visits(RoleOf[c]) : participants[visit[3]].managerEndpoint = c
        BY <3>1, VisitsListed DEF Peers
      <4>2. ms \in Seq({})
        BY <2>1, <4>1, CopiesForSeq DEF IInv
      <4>3. \A k \in 1 .. n : FALSE
        BY <2>3, <4>2, ElementOfSeq
      <4>4. n = 0
        BY <2>3, <4>3
      <4>. QED  BY <2>3, <4>2, <4>4, EmptySeq
    <3>. QED  BY <3>1
  <2>6. \A k \in 1 .. l : IsNews(c, toClient[c][k])
    BY <1>2, <2>3 DEF Participating
  <2>7. /\ l + 1 \in 1 .. Len(toClient'[c])
        /\ \A k \in 1 .. (l + 1) - 1 : IsNews(c, toClient'[c][k])
        /\ l + 1 # Len(toClient'[c]) => Neighbours(c, c)
    <3>1. l + 1 # Len(toClient'[c]) => ms # <<>>
      <4>1. ms = <<>> => n = 0
        BY <2>3
      <4>. QED  BY <2>3, <2>4, <4>1
    <3>2. (l + 1) - 1 = l /\ l + 1 \in 1 .. l + 1 + n
      BY <2>3
    <3>. QED  BY <2>3, <2>4, <2>5, <2>6, <3>1, <3>2
  <2>8. Dismissed(c)'
    BY <1>1, <1>2, <2>4, <2>7 DEF Dismissed, Participating, clientVars, IsNews, Neighbours, Adjacent
  <2>. QED  BY <1>2, <1>4, <2>8 DEF Phase, clientVars
<1>7. ASSUME NEW d \in Clients, d # c
      PROVE  Phase(d)'
  <2>1. SameClient(d) /\ SameQueue(d)
    BY <1>1, <1>2, <1>4, <1>7 DEF SameClient, SameQueue, Queued, Senders, clientVars
  <2>2. CopiesFor(d, RoleOf[c], disembody) \in Seq({disembody})
        /\ (~Listed(d) => CopiesFor(d, RoleOf[c], disembody) = <<>>)
    BY CopiesFacts
  <2>3. CASE Listed(d)
    <3>1. IsNews(d, disembody)
      BY <1>7, OthersEndpoint DEF Disembody, IsNews
    <3>2. PICK ms : ms = CopiesFor(d, RoleOf[c], disembody)
      OBVIOUS
    <3>3. ms \in Seq(Messages) /\ \A k \in 1 .. Len(ms) : IsNews(d, ms[k])
      BY <1>5, <2>2, <3>1, <3>2, AllNews
    <3>4. toClient'[d] = toClient[d] \o ms
      BY <1>1, <1>7, <3>2
    <3>. QED  BY <1>1, <2>1, <2>3, <3>3, <3>4, PhaseHears
  <2>4. CASE ~Listed(d)
    <3>1. toClient'[d] = toClient[d]
      BY <1>1, <1>7, <2>2, <2>4, ConcatEmptySeq DEF IInv, NetworkTypeOK
    <3>. QED  BY <1>1, <2>1, <3>1, PhaseStays
  <2>. QED  BY <2>3, <2>4
<1>8. ServerPhase'
  <2>1. \A key \in DOMAIN participants' :
            key = LocalEndpoint[participants'[key].managerEndpoint]
    BY <1>3 DEF ServerPhase
  <2>. QED  BY <1>1, <2>1 DEF ServerPhase
<1>. QED  BY <1>6, <1>7, <1>8

\* The endpoint that is disembodied is always in the map.
LEMMA DisembodyUnknownNever ==
    ASSUME OrderedTransport, IInv, ServerPhase, \A d \in Clients : Phase(d),
           NEW c \in Clients, NEW i, OnDisembodyUnknown(c, i)
    PROVE  FALSE
<1>1. Listed(c) /\ toServer[c][i] = Disembody(LocalEndpoint[c])
  BY DisembodyMeets DEF OnDisembodyUnknown, ReceiveAndReply
<1>. QED  BY <1>1 DEF OnDisembodyUnknown, Listed, Disembody

-----------------------------------------------------------------------------
(* The end of the server, and the clients *)

\* A step of client c alone, or of the server thread alone, moves nobody else.
LEMMA OthersStay ==
    ASSUME ServerPhase, \A d \in Clients : Phase(d), NEW c,
           UNCHANGED <<state, roleGraphConnections, participants, registerQueue>>,
           server' # "failed",
           \A d \in Clients \ {c} :
                /\ pc'[d] = pc[d] /\ running'[d] = running[d]
                /\ toServer'[d] = toServer[d] /\ toClient'[d] = toClient[d]
    PROVE  ServerPhase' /\ \A d \in Clients \ {c} : Phase(d)'
<1>1. ServerPhase'
  BY DEF ServerPhase
<1>2. ASSUME NEW d \in Clients \ {c}
      PROVE  Phase(d)'
  <2>1. SameClient(d) /\ SameQueue(d)
    BY DEF SameClient, SameQueue, Queued, Listed
  <2>. QED  BY <2>1, PhaseStays
<1>. QED  BY <1>1, <1>2

LEMMA ServerEndPhase ==
    ASSUME IInv, ServerPhase, \A d \in Clients : Phase(d),
           ServerStop \/ ServerCloses, UNCHANGED clientVars
    PROVE  ServerPhase' /\ \A d \in Clients : Phase(d)'
<1>1. Server \notin Clients /\ toServer \in [Senders -> Seq(Messages)]
  BY ClientsAssumption DEF IInv, NetworkTypeOK
<1>2. /\ UNCHANGED <<toClient, state, roleGraphConnections, participants, registerQueue>>
      /\ server' # "failed"
  BY DEF ServerStop, ServerCloses, OnServerClose, serverVars, ServerPhase
<1>3. \A d \in Clients : toServer'[d] = toServer[d]
  BY <1>1 DEF ServerStop, ServerCloses, OnServerClose, ReceiveAtServer, Senders
<1>4. ServerPhase' /\ \A d \in Clients \ {Server} : Phase(d)'
  BY <1>2, <1>3, OthersStay DEF clientVars
<1>. QED  BY <1>1, <1>4

LEMMA ConstructPhase ==
    ASSUME IInv, ServerPhase, \A d \in Clients : Phase(d),
           NEW c \in Clients, Construct(c), UNCHANGED serverVars
    PROVE  ServerPhase' /\ \A d \in Clients : Phase(d)'
<1>1. ~Listed(c) /\ running[c] /\ Outside(c)
  BY DEF Construct, Phase, Registering, Waiting, Asked, Supplying, Released, Embodying,
         Participating, Dismissed, Departed
<1>2. /\ pc \in [Clients -> ClientStates] /\ running \in [Clients -> BOOLEAN]
      /\ toServer \in [Senders -> Seq(Messages)] /\ c \in Senders
  BY DEF IInv, ClientTypeOK, NetworkTypeOK, Senders
<1>3. /\ pc'[c] = "context" /\ UNCHANGED <<running, toClient>>
      /\ \A d \in Clients \ {c} : pc'[d] = pc[d] /\ toServer'[d] = toServer[d]
  BY <1>2 DEF Construct, SendToServer, Senders
<1>4. toServer'[c] = <<Register>>
  <2>1. Append(<<>>, Register) = <<Register>>
    OBVIOUS
  <2>. QED  BY <1>1, <1>2, <2>1 DEF Construct, SendToServer, Outside, Quiet
<1>5. Registering(c)'
  BY <1>1, <1>3, <1>4 DEF Registering, Outside, Quiet, Queued, serverVars
<1>6. Phase(c)'
  BY <1>1, <1>3, <1>5 DEF Phase, Listed, serverVars
<1>7. ServerPhase' /\ \A d \in Clients \ {c} : Phase(d)'
  BY <1>3, OthersStay DEF serverVars, ServerPhase
<1>. QED  BY <1>6, <1>7

\* The answer to RoleGraphRequest, element by element.
LEMMA RoleGraphReplyFacts ==
    /\ Len(RoleGraph) \in Nat
    /\ Len(RoleGraphReply) = Len(RoleGraph) + 1
    /\ \A k \in 1 .. Len(RoleGraph) + 1 :
        RoleGraphReply[k] = IF k = Len(RoleGraph) + 1 THEN RolesComplete
                            ELSE AddRoleConnection(RoleGraph[k])
<1>. DEFINE edges == [k \in 1 .. Len(RoleGraph) |-> AddRoleConnection(RoleGraph[k])]
<1>1. Len(RoleGraph) \in Nat /\ DOMAIN RoleGraph = 1 .. Len(RoleGraph)
  BY RoleAssumption, LenProperties
<1>2. \A k \in 1 .. Len(RoleGraph) : AddRoleConnection(RoleGraph[k]) \in Messages
  BY <1>1, RoleAssumption, ElementOfSeq DEF AddRoleConnection, Messages
<1>3. edges \in Seq(Messages)
  BY <1>1, <1>2, IsASeq
<1>4. Len(edges) = Len(RoleGraph)
  BY <1>1, <1>3, LenProperties
<1>5. RolesComplete \in Messages
  BY DEF RolesComplete, Messages
<1>6. \A k \in 1 .. Len(RoleGraph) : edges[k] = AddRoleConnection(RoleGraph[k])
  OBVIOUS
<1>. HIDE DEF edges
<1>7. RoleGraphReply = Append(edges, RolesComplete)
  <2>1. RoleGraphReply = edges \o <<RolesComplete>>
    BY DEF RoleGraphReply, edges
  <2>. QED  BY <1>3, <2>1
<1>8. /\ Len(RoleGraphReply) = Len(RoleGraph) + 1
      /\ \A k \in 1 .. Len(RoleGraph) : RoleGraphReply[k] = edges[k]
      /\ RoleGraphReply[Len(RoleGraph) + 1] = RolesComplete
  BY <1>3, <1>4, <1>5, <1>7, AppendProperties
<1>9. \A k \in 1 .. Len(RoleGraph) + 1 :
        (k \in 1 .. Len(RoleGraph) /\ k # Len(RoleGraph) + 1) \/ k = Len(RoleGraph) + 1
  BY <1>1
<1>. QED  BY <1>1, <1>6, <1>8, <1>9

\* What a client's thread leaves alone.
LEMMA ClientReceives ==
    ASSUME OrderedTransport, IInv, NEW c \in Clients, NEW i \in Arrived(toClient[c]),
           ReceiveAtClient(c, i)
    PROVE  /\ i = 1 /\ toClient[c] # <<>> /\ toClient[c] \in Seq(Messages)
           /\ toClient'[c] = Tail(toClient[c]) /\ UNCHANGED toServer
           /\ \A d \in Clients \ {c} : toClient'[d] = toClient[d]
BY ClientTakes DEF ReceiveAtClient

LEMMA RoleGraphRequestPhase ==
    ASSUME OrderedTransport, IInv, ServerPhase, \A d \in Clients : Phase(d),
           NEW c \in Clients, NEW i, OnRoleGraphRequest(c, i), UNCHANGED serverVars
    PROVE  ServerPhase' /\ \A d \in Clients : Phase(d)'
<1>0. i \in Arrived(toClient[c]) /\ toClient' = [toClient EXCEPT ![c] = RemoveAt(@, i)]
  BY DEF OnRoleGraphRequest, ContextReceives, ReceiveAndSend
<1>1. /\ i = 1 /\ toClient[c] # <<>> /\ toClient[c][1].type = "RoleGraphRequest"
      /\ pc[c] = "context"
      /\ toClient'[c] = Tail(toClient[c])
      /\ \A d \in Clients \ {c} : toClient'[d] = toClient[d]
  BY <1>0, ClientTakes DEF OnRoleGraphRequest, ContextReceives
<1>2. running[c]
  BY <1>1 DEF Phase, Departed
<1>3. ~Listed(c) /\ Asked(c)
  BY <1>1, <1>2, ClientMeets
<1>4. /\ toServer'[c] = RoleGraphReply /\ toClient'[c] = <<>>
      /\ \A d \in Clients \ {c} : toServer'[d] = toServer[d]
  <2>1. toServer \in [Senders -> Seq(Messages)] /\ c \in Senders
    BY DEF IInv, NetworkTypeOK, Senders
  <2>2. toServer' = [toServer EXCEPT ![c] = <<>> \o RoleGraphReply]
    BY <1>3, <2>1 DEF OnRoleGraphRequest, ReceiveAndSend, Asked
  <2>3. <<>> \o RoleGraphReply = RoleGraphReply
    BY RoleGraphReplySeq, ConcatEmptySeq
  <2>4. Tail(<<RoleGraphRequest>>) = <<>>
    OBVIOUS
  <2>. QED  BY <1>1, <1>3, <2>1, <2>2, <2>3, <2>4 DEF Asked, Senders
<1>5. UNCHANGED <<pc, running, state, registerQueue, roleGraphConnections, participants, server>>
  BY DEF OnRoleGraphRequest, clientVars, serverVars
<1>6. PICK r \in Nat : r = Len(RoleGraph) /\ Len(RoleGraphReply) = r + 1
  BY RoleGraphReplyFacts
<1>7. roleGraphConnections' = <<>> /\ Len(roleGraphConnections') = 0
  BY <1>3, <1>5 DEF Asked
<1>8. \A k \in 1 .. Len(toServer'[c]) :
        toServer'[c][k] = IF k = Len(toServer'[c]) THEN RolesComplete
                          ELSE AddRoleConnection(RoleGraph[Len(roleGraphConnections') + k])
  <2>1. \A k \in 1 .. r + 1 : 0 + k = k
    BY <1>6
  <2>. QED  BY <1>4, <1>6, <1>7, <2>1, RoleGraphReplyFacts
<1>9. Len(roleGraphConnections') + Len(toServer'[c]) = Len(RoleGraph) + 1 /\ toServer'[c] # <<>>
  <2>1. Len(toServer'[c]) = r + 1 /\ r + 1 # 0 /\ 0 + (r + 1) = r + 1
    BY <1>4, <1>6
  <2>. QED  BY <1>6, <1>7, <2>1
<1>10. Supplying(c)'
  BY <1>3, <1>4, <1>5, <1>7, <1>8, <1>9 DEF Supplying, Asked, Queued
<1>11. Phase(c)'
  BY <1>2, <1>3, <1>5, <1>10 DEF Phase, Listed
<1>12. ServerPhase' /\ \A d \in Clients \ {c} : Phase(d)'
  BY <1>1, <1>4, <1>5, OthersStay DEF ServerPhase
<1>. QED  BY <1>11, <1>12

LEMMA AcknowledgedPhase ==
    ASSUME OrderedTransport, IInv, ServerPhase, \A d \in Clients : Phase(d),
           NEW c \in Clients, NEW i, OnAddRoleConnectionAck(c, i), UNCHANGED serverVars
    PROVE  ServerPhase' /\ \A d \in Clients : Phase(d)'
<1>1. /\ i = 1 /\ toClient[c] # <<>> /\ toClient[c][1].type = "AddRoleConnection"
      /\ toClient[c] \in Seq(Messages) /\ pc[c] = "context"
      /\ toClient'[c] = Tail(toClient[c]) /\ UNCHANGED toServer
      /\ \A d \in Clients \ {c} : toClient'[d] = toClient[d]
  BY ClientReceives DEF OnAddRoleConnectionAck, ContextReceives
<1>2. running[c]
  BY <1>1 DEF Phase, Departed
<1>3. ~Listed(c) /\ (Supplying(c) \/ Released(c))
  BY <1>1, <1>2, ClientMeets
<1>4. UNCHANGED <<pc, running, state, registerQueue, roleGraphConnections, participants, server>>
  BY DEF OnAddRoleConnectionAck, clientVars, serverVars
<1>5. PICK n \in Nat \ {0} :
        /\ n = Len(toClient[c]) /\ Len(toClient'[c]) = n - 1
        /\ \A k \in 1 .. n - 1 : toClient'[c][k] = toClient[c][k + 1]
  BY <1>1, TakesFirst
<1>6. \A k \in 1 .. n - 1 : k + 1 \in 1 .. n /\ (k + 1 = n <=> k = n - 1)
  BY <1>5
<1>7. ASSUME Supplying(c)
      PROVE  Supplying(c)'
  <2>1. \A k \in 1 .. n : toClient[c][k].type = "AddRoleConnection"
    BY <1>5, <1>7 DEF Supplying
  <2>2. \A k \in 1 .. n - 1 : toClient'[c][k].type = "AddRoleConnection"
    BY <1>5, <1>6, <2>1, SMTT(20)
  <2>. QED  BY <1>1, <1>4, <1>5, <1>7, <2>2 DEF Supplying, Queued
<1>8. ASSUME Released(c)
      PROVE  Released(c)'
  <2>1. \A k \in 1 .. n : toClient[c][k].type = IF k = n THEN "RolesComplete"
                                                ELSE "AddRoleConnection"
    BY <1>5, <1>8 DEF Released
  <2>2. \A k \in 1 .. n - 1 : toClient'[c][k].type = IF k = n - 1 THEN "RolesComplete"
                                                     ELSE "AddRoleConnection"
    BY <1>5, <1>6, <2>1
  <2>3. n # 1
    <3>1. 1 \in 1 .. n
      BY <1>5
    <3>. QED  BY <1>1, <2>1, <3>1
  <2>4. toClient'[c] # <<>>
    <3>1. Len(toClient'[c]) # 0
      BY <1>5, <2>3
    <3>. QED  BY <3>1
  <2>. QED  BY <1>1, <1>4, <1>5, <1>8, <2>2, <2>4 DEF Released
<1>9. Phase(c)'
  BY <1>2, <1>3, <1>4, <1>7, <1>8 DEF Phase, Listed
<1>10. ServerPhase' /\ \A d \in Clients \ {c} : Phase(d)'
  BY <1>1, <1>4, OthersStay DEF ServerPhase
<1>. QED  BY <1>9, <1>10

LEMMA ContextReadyPhase ==
    ASSUME OrderedTransport, IInv, ServerPhase, \A d \in Clients : Phase(d),
           NEW c \in Clients, NEW i, OnContextReady(c, i), UNCHANGED serverVars
    PROVE  ServerPhase' /\ \A d \in Clients : Phase(d)'
<1>0. i \in Arrived(toClient[c]) /\ toClient' = [toClient EXCEPT ![c] = RemoveAt(@, i)]
  BY DEF OnContextReady, ContextReceives, ReceiveAndSend
<1>1. /\ i = 1 /\ toClient[c] # <<>> /\ toClient[c][1].type = "RolesComplete"
      /\ pc[c] = "context" /\ toClient[c] \in Seq(Messages)
      /\ toClient'[c] = Tail(toClient[c])
      /\ \A d \in Clients \ {c} : toClient'[d] = toClient[d]
  BY <1>0, ClientTakes DEF OnContextReady, ContextReceives
<1>2. running[c]
  BY <1>1 DEF Phase, Departed
<1>3. ~Listed(c) /\ Released(c) /\ Len(toClient[c]) = 1
  BY <1>1, <1>2, ClientMeets
<1>4. toClient'[c] = <<>>
  BY <1>1, <1>3, TakesFirst
<1>5. /\ toServer'[c] = <<Embody(LocalEndpoint[c], RoleOf[c])>>
      /\ \A d \in Clients \ {c} : toServer'[d] = toServer[d]
  <2>1. toServer \in [Senders -> Seq(Messages)] /\ c \in Senders
    BY DEF IInv, NetworkTypeOK, Senders
  <2>2. toServer' = [toServer EXCEPT ![c] = <<>> \o <<Embody(LocalEndpoint[c], RoleOf[c])>>]
    BY <1>3, <2>1 DEF OnContextReady, ReceiveAndSend, Released
  <2>3. \A m : <<>> \o <<m>> = <<m>>
    OBVIOUS
  <2>. QED  BY <2>1, <2>2, <2>3 DEF Senders
<1>6. /\ pc'[c] = "running" /\ \A d \in Clients \ {c} : pc'[d] = pc[d]
      /\ UNCHANGED <<running, state, registerQueue, roleGraphConnections, participants, server>>
  BY DEF OnContextReady, serverVars, IInv, ClientTypeOK
<1>7. Embodying(c)'
  BY <1>3, <1>4, <1>5, <1>6 DEF Embodying, Released
<1>8. Phase(c)'
  BY <1>2, <1>3, <1>6, <1>7 DEF Phase, Listed
<1>9. ServerPhase' /\ \A d \in Clients \ {c} : Phase(d)'
  BY <1>1, <1>5, <1>6, OthersStay DEF ServerPhase
<1>. QED  BY <1>8, <1>9

-----------------------------------------------------------------------------
(* The management thread, stop() and the end of a client *)

\* The client takes a message about somebody else.
LEMMA NewsTaken ==
    ASSUME IInv, NEW c \in Clients, Phase(c), SameClient(c), UNCHANGED state,
           running[c], pc[c] \in {"running", "joining"},
           toClient[c] # <<>>, toClient'[c] = Tail(toClient[c]), IsNews(c, toClient[c][1])
    PROVE  Phase(c)'
<1>1. PICK n \in Nat \ {0} :
        /\ n = Len(toClient[c]) /\ Len(toClient'[c]) = n - 1
        /\ \A k \in 1 .. n - 1 : toClient'[c][k] = toClient[c][k + 1]
  BY TakesFirst DEF IInv, NetworkTypeOK
<1>2. \A k \in 1 .. n - 1 : k + 1 \in 1 .. n
  BY <1>1
<1>3. ~IsNews(c, Disembody(LocalEndpoint[c]))
  BY DEF IsNews, Disembody
<1>4. (Listed(c) /\ Participating(c)) \/ (~Listed(c) /\ Dismissed(c))
  BY ClientMeets, <1>3
<1>5. ASSUME Participating(c)
      PROVE  Participating(c)'
  <2>1. \A k \in 1 .. n : IsNews(c, toClient[c][k])
    BY <1>1, <1>5 DEF Participating
  <2>2. \A k \in 1 .. n - 1 : IsNews(c, toClient'[c][k])
    BY <1>1, <1>2, <2>1
  <2>. QED  BY <1>1, <1>5, <2>2 DEF Participating, SameClient, IsNews
<1>6. ASSUME Dismissed(c)
      PROVE  Dismissed(c)'
  <2>1. PICK j \in 1 .. n :
            /\ toClient[c][j] = Disembody(LocalEndpoint[c])
            /\ \A k \in 1 .. j - 1 : IsNews(c, toClient[c][k])
            /\ j # n => Neighbours(c, c)
    BY <1>1, <1>6 DEF Dismissed
  <2>2. j # 1
    BY <1>3, <2>1
  <2>3. j - 1 \in 1 .. n - 1 /\ (j - 1) + 1 = j /\ (j = n <=> j - 1 = n - 1)
    BY <1>1, <2>2
  <2>4. toClient'[c][j - 1] = Disembody(LocalEndpoint[c])
    BY <1>1, <2>1, <2>3
  <2>5. \A k \in 1 .. (j - 1) - 1 : k \in 1 .. n - 1 /\ k + 1 \in 1 .. j - 1
    BY <1>1, <2>1
  <2>6. \A k \in 1 .. (j - 1) - 1 : IsNews(c, toClient'[c][k])
    BY <1>1, <2>1, <2>5
  <2>. QED  BY <1>1, <1>6, <2>1, <2>3, <2>4, <2>6
            DEF Dismissed, SameClient, IsNews, Neighbours, Adjacent
<1>. QED  BY <1>4, <1>5, <1>6 DEF Phase, SameClient

LEMMA NewsPhase ==
    ASSUME OrderedTransport, IInv, ServerPhase, \A d \in Clients : Phase(d),
           NEW c \in Clients, NEW i,
           \/ OnDisembodyOther(c, i)
           \/ OnNeighbour(c, i, "Embody")
           \/ OnNeighbour(c, i, "Announce"),
           UNCHANGED serverVars
    PROVE  ServerPhase' /\ \A d \in Clients : Phase(d)'
<1>1. /\ i = 1 /\ toClient[c] # <<>> /\ running[c] /\ pc[c] \in {"running", "joining"}
      /\ toClient'[c] = Tail(toClient[c]) /\ UNCHANGED toServer
      /\ \A d \in Clients \ {c} : toClient'[d] = toClient[d]
  BY ClientReceives DEF OnDisembodyOther, OnNeighbour, AliveReceives
<1>2. IsNews(c, toClient[c][1])
  BY <1>1 DEF OnDisembodyOther, OnNeighbour, AliveReceives, IsNews
<1>3. UNCHANGED <<pc, running, state, registerQueue, roleGraphConnections, participants, server>>
  BY DEF OnDisembodyOther, OnNeighbour, serverVars
<1>4. Phase(c)'
  BY <1>1, <1>2, <1>3, NewsTaken DEF SameClient, Listed
<1>5. ServerPhase' /\ \A d \in Clients \ {c} : Phase(d)'
  BY <1>1, <1>3, OthersStay DEF ServerPhase
<1>. QED  BY <1>4, <1>5

LEMMA DisembodyAckPhase ==
    ASSUME OrderedTransport, IInv, ServerPhase, \A d \in Clients : Phase(d),
           NEW c \in Clients, NEW i, OnDisembodyAck(c, i), UNCHANGED serverVars
    PROVE  ServerPhase' /\ \A d \in Clients : Phase(d)'
<1>1. /\ i = 1 /\ toClient[c] # <<>> /\ running[c] /\ pc[c] \in {"running", "joining"}
      /\ toClient[c] \in Seq(Messages)
      /\ toClient'[c] = Tail(toClient[c]) /\ UNCHANGED toServer
      /\ \A d \in Clients \ {c} : toClient'[d] = toClient[d]
  BY ClientReceives DEF OnDisembodyAck, AliveReceives
<1>2. ~IsNews(c, toClient[c][1])
  BY <1>1 DEF OnDisembodyAck, AliveReceives, IsNews
<1>3. ~Listed(c) /\ Dismissed(c)
  BY <1>1, <1>2, ClientMeets
<1>4. PICK n \in Nat \ {0} : n = Len(toClient[c]) /\ (n = 1 => toClient'[c] = <<>>)
  BY <1>1, TakesFirst
<1>5. n # 1 => Neighbours(c, c)
  <2>1. PICK j \in 1 .. n :
            /\ \A k \in 1 .. j - 1 : IsNews(c, toClient[c][k])
            /\ j # n => Neighbours(c, c)
    BY <1>3, <1>4 DEF Dismissed
  <2>2. j = 1
    BY <1>2, <2>1
  <2>. QED  BY <2>1, <2>2
<1>6. /\ ~running'[c] /\ \A d \in Clients \ {c} : running'[d] = running[d]
      /\ UNCHANGED <<pc, state, registerQueue, roleGraphConnections, participants, server>>
  BY DEF OnDisembodyAck, serverVars, IInv, ClientTypeOK
<1>7. Departed(c)'
  BY <1>1, <1>3, <1>4, <1>5, <1>6 DEF Departed, Dismissed, Neighbours, Adjacent
<1>8. Phase(c)'
  BY <1>3, <1>6, <1>7 DEF Phase, Listed
<1>9. ServerPhase' /\ \A d \in Clients \ {c} : Phase(d)'
  BY <1>1, <1>6, OthersStay DEF ServerPhase
<1>. QED  BY <1>8, <1>9

\* No message without a functor reaches a client.
LEMMA UnhandledNever ==
    ASSUME OrderedTransport, IInv, \A d \in Clients : Phase(d),
           NEW c \in Clients, NEW i, OnUnhandled(c, i)
    PROVE  FALSE
<1>1. /\ toClient[c] # <<>> /\ running[c] /\ pc[c] \in {"context", "running", "joining"}
      /\ toClient[c][1].type \notin Handled(pc[c])
  BY ClientReceives DEF OnUnhandled
<1>2. pc[c] = "context" => toClient[c][1].type \in
            {"RoleGraphRequest", "AddRoleConnection", "RolesComplete"}
  BY <1>1, ClientMeets
<1>3. pc[c] # "context" => toClient[c][1].type \in {"Disembody", "Embody", "Announce"}
  <2>1. Disembody(LocalEndpoint[c]).type = "Disembody"
    BY DEF Disembody
  <2>2. ASSUME pc[c] # "context"
        PROVE  IsNews(c, toClient[c][1]) \/ toClient[c][1] = Disembody(LocalEndpoint[c])
    BY <1>1, <2>2, ClientMeets
  <2>. QED  BY <2>1, <2>2 DEF IsNews
<1>. QED  BY <1>1, <1>2, <1>3 DEF Handled

LEMMA StopPhase ==
    ASSUME IInv, ServerPhase, \A d \in Clients : Phase(d),
           NEW c \in Clients, Stop(c), UNCHANGED serverVars
    PROVE  ServerPhase' /\ \A d \in Clients : Phase(d)'
<1>1. /\ running[c]
      /\ (Listed(c) /\ Participating(c)) \/ (~Listed(c) /\ Embodying(c))
  BY DEF Stop, Phase, Outside, Registering, Waiting, Asked, Supplying, Released,
         Dismissed, Departed
<1>2. /\ pc'[c] = "joining" /\ UNCHANGED <<running, toClient>>
      /\ \A d \in Clients \ {c} : pc'[d] = pc[d] /\ toServer'[d] = toServer[d]
      /\ toServer'[c] = Append(toServer[c], Disembody(LocalEndpoint[c]))
  BY DEF Stop, SendToServer, Senders, IInv, ClientTypeOK, NetworkTypeOK
<1>3. /\ \A m : Append(<<>>, m) = <<m>>
      /\ \A m, n : Append(<<m>>, n) = <<m, n>>
  <2>1. \A m : Append(<<>>, m) = <<m>>
    OBVIOUS
  <2>2. ASSUME NEW m, NEW n
        PROVE  Append(<<m>>, n) = <<m, n>>
    <3>1. <<m>> \in Seq({m, n}) /\ <<m, n>> \in Seq({m, n}) /\ Len(<<m>>) = 1
          /\ Len(<<m, n>>) = 2
      OBVIOUS
    <3>2. /\ Append(<<m>>, n) \in Seq({m, n}) /\ Len(Append(<<m>>, n)) = 2
          /\ Append(<<m>>, n)[1] = m /\ Append(<<m>>, n)[2] = n
      BY <3>1, AppendProperties
    <3>3. <<m, n>>[1] = m /\ <<m, n>>[2] = n /\ \A k \in 1 .. 2 : k = 1 \/ k = 2
      OBVIOUS
    <3>4. PICK a, b : a = Append(<<m>>, n) /\ b = <<m, n>>
      OBVIOUS
    <3>5. /\ a \in Seq({m, n}) /\ b \in Seq({m, n}) /\ Len(a) = 2 /\ Len(b) = 2
          /\ \A k \in 1 .. 2 : a[k] = b[k]
      BY <3>1, <3>2, <3>3, <3>4
    <3>6. a = b
      BY <3>5, SeqEqual
    <3>. QED  BY <3>4, <3>6
  <2>. QED  BY <2>1, <2>2
<1>4. ASSUME Participating(c)
      PROVE  Participating(c)'
  <2>1. toServer[c] = <<>>
    BY <1>4 DEF Participating, Stop
  <2>2. toServer'[c] = <<Disembody(LocalEndpoint[c])>>
    BY <1>2, <1>3, <2>1
  <2>. QED  BY <1>2, <1>4, <2>2 DEF Participating, serverVars, IsNews
<1>5. ASSUME Embodying(c)
      PROVE  Embodying(c)'
  <2>1. toServer[c] = <<Embody(LocalEndpoint[c], RoleOf[c])>>
    BY <1>5 DEF Embodying, Stop
  <2>2. toServer'[c] = <<Embody(LocalEndpoint[c], RoleOf[c]), Disembody(LocalEndpoint[c])>>
    BY <1>2, <1>3, <2>1
  <2>. QED  BY <1>2, <1>5, <2>2 DEF Embodying, serverVars
<1>6. Phase(c)'
  BY <1>1, <1>2, <1>4, <1>5 DEF Phase, Listed, serverVars
<1>7. ServerPhase' /\ \A d \in Clients \ {c} : Phase(d)'
  BY <1>2, OthersStay DEF serverVars, ServerPhase
<1>. QED  BY <1>6, <1>7

LEMMA JoinedPhase ==
    ASSUME IInv, ServerPhase, \A d \in Clients : Phase(d),
           NEW c \in Clients, Joined(c), UNCHANGED serverVars
    PROVE  ServerPhase' /\ \A d \in Clients : Phase(d)'
<1>1. ~Listed(c) /\ Departed(c)
  BY DEF Joined, Phase
<1>2. /\ pc'[c] = "closed" /\ \A d \in Clients \ {c} : pc'[d] = pc[d]
      /\ UNCHANGED <<running, toServer, toClient>>
  BY DEF Joined, networkVars, IInv, ClientTypeOK
<1>3. Departed(c)'
  BY <1>1, <1>2 DEF Departed, Neighbours, Adjacent, serverVars
<1>4. Phase(c)'
  BY <1>1, <1>2, <1>3 DEF Joined, Phase, Listed, serverVars
<1>5. ServerPhase' /\ \A d \in Clients \ {c} : Phase(d)'
  BY <1>2, OthersStay DEF serverVars, ServerPhase
<1>. QED  BY <1>4, <1>5

\* What a client that crashes has sent stays on its way, what is sent to it stays
\* unread: in the phase it was in.
LEMMA CrashPhase ==
    ASSUME IInv, ServerPhase, \A d \in Clients : Phase(d),
           NEW c \in Clients, Crash(c), UNCHANGED serverVars
    PROVE  ServerPhase' /\ \A d \in Clients : Phase(d)'
<1>1. /\ pc[c] # "new" /\ pc'[c] = "crashed" /\ \A d \in Clients \ {c} : pc'[d] = pc[d]
      /\ UNCHANGED <<running, toServer, toClient>>
  BY DEF Crash, networkVars, IInv, ClientTypeOK
<1>2. /\ ~Outside(c)
      /\ Registering(c) => Registering(c)'
      /\ Waiting(c) => Waiting(c)'
      /\ Asked(c) => Asked(c)'
  BY <1>1 DEF Outside, Registering, Waiting, Asked, Quiet, Queued, serverVars
<1>3. /\ Supplying(c) => Supplying(c)'
      /\ Released(c) => Released(c)'
      /\ Embodying(c) => Embodying(c)'
  BY <1>1 DEF Supplying, Released, Embodying, Queued, serverVars
<1>4. /\ Participating(c) => Participating(c)'
      /\ Dismissed(c) => Dismissed(c)'
      /\ Departed(c) => Departed(c)'
  BY <1>1 DEF Participating, Dismissed, Departed, IsNews, Neighbours, Adjacent, serverVars
<1>5. Phase(c)'
  BY <1>1, <1>2, <1>3, <1>4 DEF Phase, Listed, serverVars
<1>6. ServerPhase' /\ \A d \in Clients \ {c} : Phase(d)'
  BY <1>1, OthersStay DEF serverVars, ServerPhase
<1>. QED  BY <1>5, <1>6

-----------------------------------------------------------------------------
(* The theorems *)

LEMMA InitOrdered == Init => OrderedInv
<1>. SUFFICES ASSUME Init PROVE OrderedInv
  OBVIOUS
<1>1. IInv
  BY InitIInv
<1>2. /\ state = "ContextUninitialised" /\ server = "receiving"
      /\ roleGraphConnections = <<>> /\ registerQueue = <<>> /\ DOMAIN participants = {}
  BY DEF Init, ServerInit
<1>3. DOMAIN registerQueue = {}
  BY <1>2
<1>4. ServerPhase
  BY <1>2, <1>3 DEF ServerPhase
<1>5. ASSUME NEW c \in Clients
      PROVE  Phase(c)
  <2>1. Outside(c) /\ running[c]
    BY <1>3 DEF Init, NetworkInit, ClientInit, Outside, Quiet, Queued, Senders
  <2>2. ~Listed(c)
    BY <1>2 DEF Listed
  <2>. QED  BY <2>1, <2>2 DEF Phase
<1>. QED  BY <1>1, <1>4, <1>5 DEF OrderedInv

LEMMA StepOrdered ==
    ASSUME OrderedTransport, DistinctEndpoints, OrderedInv, [Next]_vars
    PROVE  OrderedInv'
<1>1. IInv /\ ServerPhase /\ (\A d \in Clients : Phase(d)) /\ IInv'
  BY StepIInv DEF OrderedInv
<1>2. ServerPhase' /\ \A d \in Clients : Phase(d)'
  <2>1. CASE ServerStep
    <3>1. UNCHANGED clientVars
      BY <2>1 DEF ServerStep
    <3>2. CASE ServerCloses
      BY <1>1, <3>1, <3>2, ServerEndPhase
    <3>3. ASSUME NEW c \in Clients, ServerHandles(c)
          PROVE  ServerPhase' /\ \A d \in Clients : Phase(d)'
      <4>1. PICK i \in Arrived(toServer[c]) :
                \/ OnFirstRegister(c, i) \/ OnQueuedRegister(c, i) \/ OnLateRegister(c, i)
                \/ OnAddRoleConnection(c, i) \/ OnRolesComplete(c, i)
                \/ OnEmbody(c, i) \/ OnDisembody(c, i) \/ OnDisembodyUnknown(c, i)
        BY <3>3 DEF ServerHandles
      <4>2. CASE OnFirstRegister(c, i)
        BY <1>1, <3>1, <4>2, FirstRegisterPhase
      <4>3. CASE OnQueuedRegister(c, i)
        BY <1>1, <3>1, <4>3, QueuedRegisterPhase
      <4>4. CASE OnLateRegister(c, i)
        BY <1>1, <3>1, <4>4, LateRegisterPhase
      <4>5. CASE OnAddRoleConnection(c, i)
        BY <1>1, <3>1, <4>5, AddRoleConnectionPhase
      <4>6. CASE OnRolesComplete(c, i)
        BY <1>1, <3>1, <4>6, RolesCompletePhase
      <4>7. CASE OnEmbody(c, i)
        BY <1>1, <3>1, <4>7, EmbodyPhase
      <4>8. CASE OnDisembody(c, i)
        BY <1>1, <3>1, <4>8, DisembodyPhase
      <4>9. CASE OnDisembodyUnknown(c, i)
        BY <1>1, <4>9, DisembodyUnknownNever
      <4>. QED  BY <4>1, <4>2, <4>3, <4>4, <4>5, <4>6, <4>7, <4>8, <4>9
    <3>. QED  BY <2>1, <3>2, <3>3 DEF ServerStep
  <2>2. CASE ServerCalled
    BY <1>1, <2>2, ServerEndPhase DEF ServerCalled
  <2>3. ASSUME NEW c \in Clients, ClientStep(c)
        PROVE  ServerPhase' /\ \A d \in Clients : Phase(d)'
    <3>1. UNCHANGED serverVars
      BY <2>3 DEF ClientStep
    <3>2. CASE Joined(c)
      BY <1>1, <3>1, <3>2, JoinedPhase
    <3>3. CASE ClientHandles(c)
      <4>1. PICK i \in Arrived(toClient[c]) :
                \/ OnRoleGraphRequest(c, i) \/ OnAddRoleConnectionAck(c, i)
                \/ OnContextReady(c, i) \/ OnDisembodyAck(c, i) \/ OnUnhandled(c, i)
                \/ OnDisembodyOther(c, i)
                \/ OnNeighbour(c, i, "Embody") \/ OnNeighbour(c, i, "Announce")
        BY <3>3 DEF ClientHandles, OnEmbodyNeighbour, OnAnnounce
      <4>2. CASE OnRoleGraphRequest(c, i)
        BY <1>1, <3>1, <4>2, RoleGraphRequestPhase
      <4>3. CASE OnAddRoleConnectionAck(c, i)
        BY <1>1, <3>1, <4>3, AcknowledgedPhase
      <4>4. CASE OnContextReady(c, i)
        BY <1>1, <3>1, <4>4, ContextReadyPhase
      <4>5. CASE OnDisembodyAck(c, i)
        BY <1>1, <3>1, <4>5, DisembodyAckPhase
      <4>6. CASE OnUnhandled(c, i)
        BY <1>1, <4>6, UnhandledNever
      <4>7. CASE \/ OnDisembodyOther(c, i)
                 \/ OnNeighbour(c, i, "Embody") \/ OnNeighbour(c, i, "Announce")
        BY <1>1, <3>1, <4>7, NewsPhase
      <4>. QED  BY <4>1, <4>2, <4>3, <4>4, <4>5, <4>6, <4>7
    <3>. QED  BY <2>3, <3>2, <3>3 DEF ClientStep
  <2>4. ASSUME NEW c \in Clients, UserCalls(c)
        PROVE  ServerPhase' /\ \A d \in Clients : Phase(d)'
    <3>1. UNCHANGED serverVars /\ (Construct(c) \/ Stop(c))
      BY <2>4 DEF UserCalls, ClientCalled
    <3>. QED  BY <1>1, <3>1, ConstructPhase, StopPhase
  <2>5. ASSUME NEW c \in Clients, Loses(c)
        PROVE  FALSE
    BY <2>5 DEF Loses, LosesMessage, OrderedTransport
  <2>6. ASSUME NEW c \in Clients, Crashes(c)
        PROVE  ServerPhase' /\ \A d \in Clients : Phase(d)'
    BY <1>1, <2>6, CrashPhase DEF Crashes
  <2>7. CASE UNCHANGED vars
    <3>1. ServerPhase' /\ \A d \in Clients \ {Server} : Phase(d)'
      BY <1>1, <2>7, OthersStay
         DEF vars, networkVars, serverVars, clientVars, ServerPhase
    <3>. QED  BY <3>1, ClientsAssumption
  <2>. QED  BY <2>1, <2>2, <2>3, <2>4, <2>5, <2>6, <2>7 DEF Next
<1>. QED  BY <1>1, <1>2 DEF OrderedInv

\* Over an ordered transport that loses nothing every client is always in one of the
\* phases of the handshake that CracenServer.hpp:113-231 and CracenClient.hpp:100-233
\* imply and the code nowhere writes down.
THEOREM PhasesFollow ==
    ASSUME OrderedTransport, DistinctEndpoints
    PROVE  Spec => []OrderedInv
<1>. QED  BY InitOrdered, StepOrdered, PTL DEF Spec

\* No thread of the server or of a client ever receives a message its visitor has no
\* functor for, and participants.at finds every endpoint that is disembodied.
THEOREM NobodyEverFails ==
    ASSUME OrderedTransport, DistinctEndpoints
    PROVE  Spec => []NobodyFails
<1>1. OrderedInv => NobodyFails
  <2>1. ASSUME NEW c \in Clients, Phase(c)
        PROVE  pc[c] # "terminated"
    BY <2>1 DEF Phase, Outside, Registering, Waiting, Asked, Supplying, Released, Embodying,
                Participating, Dismissed, Departed
  <2>. QED  BY <2>1 DEF OrderedInv, ServerPhase, NobodyFails
<1>. QED  BY <1>1, PhasesFollow, PTL

\* A client that is released from its constructor finds the whole role graph at the
\* server, every edge once.
THEOREM GraphAlwaysComplete ==
    ASSUME OrderedTransport, DistinctEndpoints
    PROVE  Spec => []GraphComplete
<1>1. OrderedInv => GraphComplete
  BY DEF OrderedInv, ServerPhase, GraphComplete
<1>. QED  BY <1>1, PhasesFollow, PTL

\* No role is its own neighbour.
NoLoops == \A c \in Clients : ~Neighbours(c, c)

\* When stop() of a client has returned, the server has forgotten it and nothing is on
\* its way to the endpoint that has been closed.  (A client whose role is its own
\* neighbour is told of its own departure behind the acknowledgement.)
THEOREM ClosedIsQuiet ==
    ASSUME OrderedTransport, DistinctEndpoints, NoLoops
    PROVE  Spec => []QuietAfterClose
<1>1. OrderedInv => QuietAfterClose
  <2>. SUFFICES ASSUME OrderedInv, NEW c \in Clients, pc[c] = "closed"
                PROVE  toClient[c] = <<>> /\ ~IsParticipant(c)
    BY DEF QuietAfterClose
  <2>1. Phase(c) /\ ServerPhase
    BY DEF OrderedInv
  <2>2. ~Listed(c) /\ Departed(c)
    BY <2>1 DEF Phase, Outside, Registering, Waiting, Asked, Supplying, Released, Embodying,
                Participating, Dismissed
  <2>3. toClient[c] = <<>>
    BY <2>2 DEF Departed, NoLoops
  <2>4. ~IsParticipant(c)
    BY <2>1, <2>2 DEF IsParticipant, ServerPhase, Listed
  <2>. QED  BY <2>3, <2>4
<1>. QED  BY <1>1, PhasesFollow, PTL

=============================================================================
