---------------------------- MODULE Communicator ----------------------------
(***************************************************************************)
(* The management network between the server and its clients: the typed    *)
(* messages of backend/Messages.hpp and one channel per direction and      *)
(* client, plus the channel of the server to itself that stop() uses.      *)
(*                                                                         *)
(* A client is identified with the endpoint of its serverCommunicator, the *)
(* "from" its messages carry.  A send never blocks; what becomes of it is a *)
(* parameter: with Ordered the messages of one sender are received in the  *)
(* order they were sent (BoostMpi), otherwise in any order (AsioDatagram   *)
(* by the nature of UDP, AsioStreaming because handle_datagram re-posts    *)
(* itself when no receive is pending); if Lossy a message may be lost on   *)
(* its way without anybody being told (AsioDatagram).                      *)
(***************************************************************************)
EXTENDS Integers, Sequences, FiniteSets, SequencesExt

CONSTANTS
    Clients,        \* manager endpoints of the clients
    Server,         \* the server's own endpoint, as a sender
    Roles,          \* role ids
    Hosts, Ports,   \* what an endpoint is made of
    AnyHost,        \* 0.0.0.0, the host of a socket bound to every interface
    Ordered,        \* TRUE: channels are FIFO, FALSE: any order
    Lossy           \* TRUE: a message between a client and the server may be lost

ASSUME ClientsAssumption ==
    /\ IsFiniteSet(Clients)
    /\ Server \notin Clients
ASSUME NetworkAssumption == Ordered \in BOOLEAN /\ Lossy \in BOOLEAN

VARIABLES
    toServer,       \* toServer[s]: messages of sender s the server has not received
    toClient        \* toClient[c]: messages of the server client c has not received

networkVars == <<toServer, toClient>>

Senders == Clients \cup {Server}
Endpoints == (Hosts \cup {AnyHost}) \X Ports
Edges == Roles \X Roles

-----------------------------------------------------------------------------
(* The messages *)

Register == [type |-> "Register"]
RoleGraphRequest == [type |-> "RoleGraphRequest"]
AddRoleConnection(edge) == [type |-> "AddRoleConnection", edge |-> edge]
RolesComplete == [type |-> "RolesComplete"]
Embody(endpoint, roleId) ==
    [type |-> "Embody", endpoint |-> endpoint, roleId |-> roleId]
Announce(endpoint, roleId) ==
    [type |-> "Announce", endpoint |-> endpoint, roleId |-> roleId]
Disembody(endpoint) == [type |-> "Disembody", endpoint |-> endpoint]
ServerClose == [type |-> "ServerClose"]

Messages ==
    [type : {"Register", "RoleGraphRequest", "RolesComplete", "ServerClose"}]
        \cup [type : {"AddRoleConnection"}, edge : Edges]
        \cup [type : {"Embody", "Announce"}, endpoint : Endpoints, roleId : Roles]
        \cup [type : {"Disembody"}, endpoint : Endpoints]

-----------------------------------------------------------------------------
(* Receiving *)

\* The positions of a channel the next receive may take its message from.
Arrived(channel) ==
    IF Ordered THEN DOMAIN channel \cap {1} ELSE DOMAIN channel

NetworkTypeOK ==
    /\ toServer \in [Senders -> Seq(Messages)]
    /\ toClient \in [Clients -> Seq(Messages)]

NetworkInit ==
    /\ toServer = [s \in Senders |-> <<>>]
    /\ toClient = [c \in Clients |-> <<>>]

\* The server takes message i of sender s and hands it to its visitor.
ReceiveAtServer(s, i) ==
    toServer' = [toServer EXCEPT ![s] = RemoveAt(@, i)]

\* The server takes message i of client c and answers to c with the messages ms.
ReceiveAndReply(c, i, ms) ==
    /\ ReceiveAtServer(c, i)
    /\ toClient' = [toClient EXCEPT ![c] = @ \o ms]

\* Client c takes its message i and sends the messages ms to the server.
ReceiveAndSend(c, i, ms) ==
    /\ toClient' = [toClient EXCEPT ![c] = RemoveAt(@, i)]
    /\ toServer' = [toServer EXCEPT ![c] = @ \o ms]

\* Client c takes its message i and sends nothing.
ReceiveAtClient(c, i) ==
    /\ toClient' = [toClient EXCEPT ![c] = RemoveAt(@, i)]
    /\ UNCHANGED toServer

\* A message between client c and the server is lost: async_send_to has reported
\* success when the datagram has left, and nobody waits for an acknowledgement.
LosesMessage(c) ==
    /\ Lossy
    /\ \/ \E i \in DOMAIN toServer[c] : ReceiveAtServer(c, i) /\ UNCHANGED toClient
       \/ \E i \in DOMAIN toClient[c] : ReceiveAtClient(c, i)

\* Client c sends message m to the server.
SendToServer(c, m) ==
    /\ toServer' = [toServer EXCEPT ![c] = Append(@, m)]
    /\ UNCHANGED toClient

=============================================================================
